---- MODULE Spec2Model ----
(***************************************************************************)
(* Model of the migration engine of supaR2: MigrationService               *)
(* (src/lib/migration-service.ts) driving the /api/migrate-to-r2 route     *)
(* (src/unnamed/part_003).  Paths are sequences of one-character strings,  *)
(* so that normalisation, the skip policy and the extension table are      *)
(* computed the way the code computes them.                                *)
(***************************************************************************)
EXTENDS Integers, Sequences, FiniteSets, TLC

\* ------------------------------------------------------------------------
\* Bounds of the model
\* ------------------------------------------------------------------------
MaxFiles == 7
MaxCalls == 2
MaxSubmitted == 7
MaxFaults == 1
MaxRows == 4
MaxLen == 4

\* ------------------------------------------------------------------------
\* Pure helpers on character sequences
\* ------------------------------------------------------------------------
RECURSIVE Collapse(_)
\* path.replace(/\/+/g, '/')
Collapse(s) ==
    IF Len(s) = 0 THEN <<>>
    ELSE IF Len(s) >= 2 /\ s[1] = "/" /\ s[2] = "/" THEN Collapse(Tail(s))
    ELSE <<s[1]>> \o Collapse(Tail(s))

\* String.prototype.startsWith for a one-character prefix
startsWith(s, c) == Len(s) >= 1 /\ s[1] = c

\* String.prototype.includes
includes(s, pat) ==
    \E k \in 1..(Len(s) - Len(pat) + 1) : SubSeq(s, k, k + Len(pat) - 1) = pat

\* a normalisation that strips a leading '/' and collapses nothing
normalizePath_leadingOnly(path) ==
    IF startsWith(path, "/") THEN Tail(path) ELSE path

normalizePath(path) ==
    LET normalized == Collapse(path)
    IN  IF startsWith(normalized, "/") THEN Tail(normalized) ELSE normalized

skipPatterns ==
    << <<".","e","m","p","t","y","F","o","l","d","e","r","P","l","a","c","e","h","o","l","d","e","r">>,
       <<"t","e","s","t","-">>,
       <<"m","o","c","k","-">>,
       <<"e","x","a","m","p","l","e">>,
       <<"/","e","x","a","m","p","l","e">>,
       <<"/","e","x","a","m","p","l","e","s","/">>,
       <<"s","a","m","p","l","e","-">>,
       <<"/","s","a","m","p","l","e","/">>,
       <<"/","t","e","s","t","/">>,
       <<"/","t","e","s","t","i","n","g","/">> >>

\* a policy that tests only how the path begins
shouldSkipPath_prefixOnly(path) ==
    \E n \in 1..Len(skipPatterns) :
        /\ Len(path) >= Len(skipPatterns[n])
        /\ SubSeq(path, 1, Len(skipPatterns[n])) = skipPatterns[n]

shouldSkipPath(path) ==
    \E n \in 1..Len(skipPatterns) : includes(path, skipPatterns[n])

UpperChars == <<"A","B","C","D","E","F","G","H","I","J","K","L","M",
                "N","O","P","Q","R","S","T","U","V","W","X","Y","Z">>
LowerChars == <<"a","b","c","d","e","f","g","h","i","j","k","l","m",
                "n","o","p","q","r","s","t","u","v","w","x","y","z">>

toLowerCase(s) ==
    [k \in 1..Len(s) |->
        IF \E u \in 1..Len(UpperChars) : UpperChars[u] = s[k]
        THEN LowerChars[CHOOSE u \in 1..Len(UpperChars) : UpperChars[u] = s[k]]
        ELSE s[k]]

\* path.split('.').pop(): what follows the last '.', the whole path if none
lastDotPart(path) ==
    LET dots == {k \in 1..Len(path) : path[k] = "."}
    IN  IF dots = {} THEN path
        ELSE LET d == CHOOSE k \in dots : \A m \in dots : m <= k
             IN  SubSeq(path, d + 1, Len(path))

contentTypes ==
    { << <<"j","p","g">>, "image/jpeg" >>,
      << <<"j","p","e","g">>, "image/jpeg" >>,
      << <<"p","n","g">>, "image/png" >>,
      << <<"g","i","f">>, "image/gif" >>,
      << <<"w","e","b","p">>, "image/webp" >>,
      << <<"s","v","g">>, "image/svg+xml" >>,
      << <<"p","d","f">>, "application/pdf" >>,
      << <<"d","o","c">>, "application/msword" >>,
      << <<"d","o","c","x">>, "application/vnd.openxmlformats-officedocument.wordprocessingml.document" >>,
      << <<"x","l","s">>, "application/vnd.ms-excel" >>,
      << <<"x","l","s","x">>, "application/vnd.openxmlformats-officedocument.spreadsheetml.sheet" >>,
      << <<"m","p","3">>, "audio/mpeg" >>,
      << <<"m","p","4">>, "video/mp4" >>,
      << <<"w","e","b","m">>, "video/webm" >>,
      << <<"j","s","o","n">>, "application/json" >>,
      << <<"h","t","m","l">>, "text/html" >>,
      << <<"c","s","s">>, "text/css" >>,
      << <<"j","s">>, "application/javascript" >>,
      << <<"t","x","t">>, "text/plain" >> }

\* the table of MigrationService.getContentType: two more entries
serviceContentTypes ==
    contentTypes \cup
    { << <<"p","p","t">>, "application/vnd.ms-powerpoint" >>,
      << <<"p","p","t","x">>, "application/vnd.openxmlformats-officedocument.presentationml.presentation" >> }

\* the lower-case property names an object literal inherits from
\* Object.prototype, each with the value the property access yields
inheritedProperties ==
    { << <<"c","o","n","s","t","r","u","c","t","o","r">>, "function Object() { [native code] }" >>,
      << <<"_","_","p","r","o","t","o","_","_">>, "[object Object]" >> }

\* extension && contentTypes[extension] ? contentTypes[extension]
\*                                        : 'application/octet-stream'
\* a property access finds own properties, then inherited ones
lookup(types, extension) ==
    IF Len(extension) > 0 /\ \E e \in types \cup inheritedProperties : e[1] = extension
    THEN (CHOOSE e \in types \cup inheritedProperties : e[1] = extension)[2]
    ELSE "application/octet-stream"

\* a lookup that forgets toLowerCase()
getContentType_caseSensitive(path) ==
    LET extension == lastDotPart(path)
    IN  IF Len(extension) > 0 /\ \E e \in contentTypes : e[1] = extension
        THEN (CHOOSE e \in contentTypes : e[1] = extension)[2]
        ELSE "application/octet-stream"

\* getContentType of the /api/migrate-to-r2 route
getContentType(path) ==
    LET extension == toLowerCase(lastDotPart(path))
    IN  lookup(contentTypes, extension)

\* getContentType of the migrateFileToR2 action: the same body
actionGetContentType(path) ==
    LET extension == toLowerCase(lastDotPart(path))
    IN  lookup(contentTypes, extension)

\* MigrationService.getContentType
serviceGetContentType(path) ==
    LET extension == toLowerCase(lastDotPart(path))
    IN  lookup(serviceContentTypes, extension)

\* ------------------------------------------------------------------------
\* The objects offered for migration (MigrationFile.path as the caller
\* passes it: not necessarily normalized)
\* ------------------------------------------------------------------------
AllPaths ==
    << <<"a",".","j","p","g">>,
       <<"b",".","p","n","g">>,
       <<"/","/","a",".","j","p","g">>,
       <<"/","d","/","/","c",".","P","N","G">>,
       <<"c",".","p","d","f">>,
       <<"e">>,
       <<"t","e","s","t","-","g",".","j","s">>,
       <<"f",".","g","i","f">>,
       <<"h",".","b","i","n">> >>

Min(a, b) == IF a <= b THEN a ELSE b

Inventory == SubSeq(AllPaths, 1, Min(MaxFiles, Len(AllPaths)))

\* the selections a caller may pass: leading parts of the inventory, from
\* the empty selection to the whole inventory
SelectionSizes == {0, 1, 3, Len(Inventory) - 1, Len(Inventory)}

Selections == {SubSeq(Inventory, 1, b) : b \in SelectionSizes}

Keys == {normalizePath(Inventory[n]) : n \in 1..Len(Inventory)}

CfFields == {"accountId", "accessKeyId", "secretAccessKey", "bucketName"}

\* ------------------------------------------------------------------------
\* State
\* ------------------------------------------------------------------------
VARIABLES
    cloudflareConfig,  \* which of the required fields the constructor got
    r2Client,          \* TRUE iff the constructor initialised the R2 client
    progress,          \* MigrationService.progress
    files,             \* argument of the accepted migrateFiles call
    i,                 \* loop variable of migrateFiles (0-based batch start)
    item,              \* per selected item: position of its migrateFile call
                       \* (st), and what has happened to it so far: the
                       \* answer to its HEAD probe, the number of uploadToR2
                       \* calls, how its fetch ended, the increments it made
                       \* to completed and failed, its error message
    r2,                \* destination bucket: key -> content type
    source,            \* keys of the source bucket
    run,               \* promise of the accepted migrateFiles call:
                       \* "none", "pending", "returned"
    thrown,            \* error of the latest migrateFiles call that threw
    calls,             \* number of migrateFiles calls made so far
    submitted,         \* number of files or rows accepted for migration so far
    faults,            \* number of failures the environment has injected
    r2AtDispatch,      \* keys the destination held when the run was accepted
    \* table mode (TableMigration, src/unnamed/part_002)
    table,             \* the database table: row id -> its columns
    rows,              \* state.rows: the rows as last loaded
    selectedRows,      \* the rows the running startMigration iterates over
    rowIdx,            \* position in selectedRows of the row being awaited
    tpc,               \* where startMigration is: "idle", "fetch", "update"
    reloading,         \* TRUE while a loadRows call is awaiting its query
    migrationProgress, \* state.migrationProgress, nullProgress before the first run
    migratedRows,      \* state.migratedRows
    closureMigratedRows, \* state.migratedRows as the running handler sees it
    currentlyMigratingRow, \* state.currentlyMigratingRow, 0 for null
    isCloudflareConnected, \* the prop of the same name
    customDomain,      \* cloudflareConfig.customDomain, "" when not configured
    alerted,           \* text of the latest alert()
    rowLog,            \* per row of the table, for the running call: the key
                       \* derived, requests and updates issued, how they ended
    putLog,            \* keys of the PutObjectCommands sent since the last
                       \* table run began, in order
    actionResult,      \* what the latest migrateFileToR2 call returned
    listing,           \* what the latest listFiles call returned
    \* calls of the pure path functions
    fn,                \* the function called, "none" before the call
    arg,               \* its argument
    ret,               \* what it returned
    \* file mode (FileMigration, src/components/app/FileMigration.tsx); its
    \* state.migrationProgress is migrationProgress
    stateFiles,        \* state.files: path and selected flag of each file
    handlers,          \* the startMigration calls made so far, each with
                       \* its closure, its local counters and its position
    currentlyMigratingFile, \* state.currentlyMigratingFile, <<>> for null
    migratedFiles,     \* state.migratedFiles
    totalMigratedCount, \* state.totalMigratedCount
    totalFailedCount,  \* state.totalFailedCount
    \* the connection store (src/lib/connection-store.ts)
    store,             \* the state object of the zustand store
    localStorage,      \* the items written with localStorage.setItem
    toasted,           \* the latest toast: its kind and its message
    supabaseCall,      \* the latest connectToSupabase call: its position,
                       \* the snapshot `state` it took with get(), the
                       \* arguments of its validation action, what it saved
    cloudflareCall     \* the same for the latest connectToCloudflare call

fileVars == <<cloudflareConfig, r2Client, progress, files, i, item, run,
              thrown, submitted, r2AtDispatch>>

tableVars == <<table, rows, selectedRows, rowIdx, tpc, reloading,
               migrationProgress, migratedRows, closureMigratedRows,
               currentlyMigratingRow, isCloudflareConnected, customDomain, alerted, rowLog,
               putLog, actionResult, listing>>

pureVars == <<fn, arg, ret>>

modeVars == <<stateFiles, handlers, currentlyMigratingFile, migratedFiles,
              totalMigratedCount, totalFailedCount>>

connVars == <<store, localStorage, toasted, supabaseCall, cloudflareCall>>

vars == <<fileVars, r2, source, calls, faults, tableVars, pureVars, modeVars,
          connVars>>

NoErrors == [p \in {} |-> <<>>]

InitialProgress ==
    [total |-> 0, completed |-> 0, failed |-> 0, inProgress |-> FALSE,
     errors |-> NoErrors]

\* state.migrationProgress before the first run: null
nullProgress == [null |-> TRUE]

\* no migrateFileToR2 call has returned yet
NoResult ==
    [filePath |-> <<>>, outcome |-> "none",
     result |-> [success |-> FALSE, url |-> <<>>, error |-> <<>>]]

\* no listFiles call has ended yet
NoListing ==
    [path |-> <<>>, failing |-> {}, lenient |-> TRUE, result |-> "none",
     files |-> {}]

\* no table is loaded: the table-mode component is not mounted
NoTable ==
    /\ table = [id \in {} |-> <<>>]
    /\ rows = <<>>
    /\ selectedRows = <<>>
    /\ rowIdx = 0
    /\ tpc = "idle"
    /\ reloading = FALSE
    /\ migrationProgress = nullProgress
    /\ migratedRows = {}
    /\ closureMigratedRows = {}
    /\ currentlyMigratingRow = 0
    /\ isCloudflareConnected = FALSE
    /\ customDomain = ""
    /\ alerted = "none"
    /\ rowLog = [id \in {} |-> <<>>]
    /\ putLog = <<>>
    /\ actionResult = NoResult
    /\ listing = NoListing

\* lines 61-73
DEFAULT_SUPABASE_CONFIG ==
    [supabaseUrl |-> "", supabaseKey |-> "", bucketName |-> ""]

DEFAULT_CLOUDFLARE_CONFIG ==
    [accountId |-> "", accessKeyId |-> "", secretAccessKey |-> "",
     bucketName |-> "", customDomain |-> ""]

\* lines 79-90: the state the store is created with
initialStore ==
    [supabaseConfig |-> DEFAULT_SUPABASE_CONFIG,
     cloudflareConfig |-> DEFAULT_CLOUDFLARE_CONFIG,
     editingSupabaseConfig |-> DEFAULT_SUPABASE_CONFIG,
     editingCloudflareConfig |-> DEFAULT_CLOUDFLARE_CONFIG,
     supabaseConnected |-> FALSE,
     cloudflareConnected |-> FALSE,
     availableBuckets |-> {},
     migrationMode |-> "file",
     tempMigrationMode |-> "file",
     openSupabaseDialog |-> FALSE,
     openCloudflareDialog |-> FALSE]

\* localStorage.getItem gives null for a key never set
NoItem == [null |-> TRUE]

emptyStorage ==
    [supabase_config |-> NoItem, cloudflare_config |-> NoItem,
     migration_mode |-> NoItem]

NoToast == [kind |-> "none", message |-> <<>>]

\* no connect call has been made
NoConnect ==
    [pc |-> "idle", state |-> initialStore, tested |-> NoItem,
     saved |-> NoItem, outcome |-> "none", after |-> initialStore]

\* the store as created, nothing persisted, no call made
NoStore ==
    /\ store = initialStore
    /\ localStorage = emptyStorage
    /\ toasted = NoToast
    /\ supabaseCall = NoConnect
    /\ cloudflareCall = NoConnect

\* the file-mode component is not mounted
NoFileMode ==
    /\ stateFiles = <<>>
    /\ handlers = <<>>
    /\ currentlyMigratingFile = <<>>
    /\ migratedFiles = {}
    /\ totalMigratedCount = 0
    /\ totalFailedCount = 0

\* no pure function has been called
NoCall ==
    /\ fn = "none"
    /\ arg = <<>>
    /\ ret = <<>>

\* a constructor that creates the client whatever the configuration holds
r2ClientInitialised_unconditional(cfg) == TRUE

\* constructor, lines 49-54
r2ClientInitialised(cfg) == \A f \in CfFields : cfg[f]

Init ==
    /\ cloudflareConfig \in [CfFields -> BOOLEAN]
    /\ r2Client = r2ClientInitialised(cloudflareConfig)
    /\ progress = InitialProgress
    /\ files = <<>>
    /\ i = 0
    /\ item = <<>>
    /\ r2 = [k \in {} |-> ""]
    /\ source = Keys
    /\ run = "none"
    /\ thrown = "none"
    /\ calls = 0
    /\ submitted = 0
    /\ faults = 0
    /\ r2AtDispatch = {}
    /\ NoTable
    /\ NoCall
    /\ NoFileMode
    /\ NoStore

\* ------------------------------------------------------------------------
\* migrateFile / migrateFiles
\* ------------------------------------------------------------------------
batchSize == 5

NewItem ==
    [st |-> "pending", probe |-> "none", uploads |-> 0, srv |-> "none",
     incC |-> 0, incF |-> 0, msg |-> <<>>]

\* a slice without its end: every remaining file is started at once
batchOf_unbounded(fs, start) == (start + 1)..Len(fs)

\* files.slice(i, i + batchSize), as 1-based indices
batchOf(fs, start) == (start + 1)..Min(start + batchSize, Len(fs))

\* a tracker that aggregates by position: completed is set to the position
\* of the item that completed last
countCompleted_byPosition(prog, its, n) ==
    [prog |-> [prog EXCEPT !.completed = n],
     its  |-> [its EXCEPT ![n].st = "done", ![n].incC = @ + 1]]

\* this.progress.completed++ in the migrateFile call of item n
countCompleted(prog, its, n) ==
    [prog |-> [prog EXCEPT !.completed = @ + 1],
     its  |-> [its EXCEPT ![n].st = "done", ![n].incC = @ + 1]]

\* a catch block that records the error without counting it
countFailed_uncounted(prog, its, n, path, message) ==
    [prog |-> [prog EXCEPT
                 !.errors = [p \in DOMAIN prog.errors \cup {path} |->
                               IF p = path THEN message ELSE prog.errors[p]]],
     its  |-> [its EXCEPT ![n].st = "done", ![n].msg = message]]

\* completed++ placed before the upload is awaited: a failing item has
\* then been counted as completed too
countFailed_alsoCompleted(prog, its, n, path, message) ==
    [prog |-> [prog EXCEPT
                 !.completed = @ + 1,
                 !.failed = @ + 1,
                 !.errors = [p \in DOMAIN prog.errors \cup {path} |->
                               IF p = path THEN message ELSE prog.errors[p]]],
     its  |-> [its EXCEPT ![n].st = "done", ![n].incC = @ + 1,
                          ![n].incF = @ + 1, ![n].msg = message]]

\* a catch block that counts the failure without recording its message
countFailed_unrecorded(prog, its, n, path, message) ==
    [prog |-> [prog EXCEPT !.failed = @ + 1],
     its  |-> [its EXCEPT ![n].st = "done", ![n].incF = @ + 1,
                          ![n].msg = message]]

\* a catch block that puts the failed item back at its probe instead of
\* counting it
countFailed_retried(prog, its, n, path, message) ==
    [prog |-> prog,
     its  |-> [its EXCEPT ![n].st = "head", ![n].msg = message]]

\* the catch block of migrateFile for item n, lines 373-377
countFailed(prog, its, n, path, message) ==
    [prog |-> [prog EXCEPT
                 !.failed = @ + 1,
                 !.errors = [p \in DOMAIN prog.errors \cup {path} |->
                               IF p = path THEN message ELSE prog.errors[p]]],
     its  |-> [its EXCEPT ![n].st = "done", ![n].incF = @ + 1,
                          ![n].msg = message]]

\* batch.map(file => this.migrateFile(file.path)): the synchronous part of
\* every migrateFile call of the batch, up to its first await
RECURSIVE startBatch(_, _, _, _)
startBatch(prog, its, fs, todo) ==
    IF todo = {} THEN [prog |-> prog, its |-> its]
    ELSE LET n == CHOOSE m \in todo : \A o \in todo : m <= o
             next == IF shouldSkipPath(fs[n])
                     THEN countCompleted(prog, its, n)
                     ELSE [prog |-> prog, its |-> [its EXCEPT ![n].st = "head"]]
         IN  startBatch(next.prog, next.its, fs, todo \ {n})

\* a migrateFiles without the guard of line 384
alreadyInProgress_unguarded == FALSE

alreadyInProgress == progress.inProgress

\* line 384-386
MigrateFilesInProgress(fs) ==
    /\ calls < MaxCalls
    /\ alreadyInProgress
    /\ thrown' = "Migration already in progress"
    /\ calls' = calls + 1
    /\ UNCHANGED <<cloudflareConfig, r2Client, progress, files, i, item, r2,
                   source, run, submitted, faults, r2AtDispatch, tableVars,
                   pureVars, modeVars, connVars>>

\* line 389-391
MigrateFilesNotInitialized(fs) ==
    /\ calls < MaxCalls
    /\ ~alreadyInProgress
    /\ ~r2Client
    /\ thrown' = "Cloudflare R2 client is not initialized. Please connect to Cloudflare R2 first."
    /\ calls' = calls + 1
    /\ UNCHANGED <<cloudflareConfig, r2Client, progress, files, i, item, r2,
                   source, run, submitted, faults, r2AtDispatch, tableVars,
                   pureVars, modeVars, connVars>>

\* a loop that stops after a batch in which an item failed
moreBatches_stopOnFailure(fs, start) ==
    start + batchSize < Len(fs) /\ progress.failed = 0

\* the loop condition of line 405 after i += batchSize
moreBatches(fs, start) == start + batchSize < Len(fs)

\* a run that ends without the finally block
finallyBlock_missing(prog) == prog

\* lines 409-411
finallyBlock(prog) == [prog EXCEPT !.inProgress = FALSE]

\* a reset that only sets total and inProgress on the existing record
resetProgress_keepCounts(fs) ==
    [progress EXCEPT !.total = Len(fs), !.inProgress = TRUE]

\* lines 394-400
resetProgress(fs) ==
    [total |-> Len(fs), completed |-> 0, failed |-> 0, inProgress |-> TRUE,
     errors |-> NoErrors]

\* lines 393-408 up to the first await; an empty selection runs through the
\* finally block and returns at once
MigrateFiles(fs) ==
    /\ calls < MaxCalls
    /\ submitted + Len(fs) <= MaxSubmitted
    /\ ~alreadyInProgress
    /\ r2Client
    /\ calls' = calls + 1
    /\ submitted' = submitted + Len(fs)
    /\ files' = fs
    /\ r2AtDispatch' = DOMAIN r2
    /\ i' = 0
    /\ LET started == startBatch(resetProgress(fs), [n \in 1..Len(fs) |-> NewItem],
                                 fs, batchOf(fs, 0))
       IN  IF Len(fs) = 0
           THEN /\ progress' = finallyBlock(started.prog)
                /\ item' = started.its
                /\ run' = "returned"
           ELSE /\ progress' = started.prog
                /\ item' = started.its
                /\ run' = "pending"
    /\ UNCHANGED <<cloudflareConfig, r2Client, r2, source, thrown, faults,
                   tableVars, pureVars, modeVars, connVars>>

\* Promise.all over the batch has resolved
batchResolved == \A n \in batchOf(files, i) : item[n].st = "done"

\* the continuation of await Promise.all(...): next batch, or finally + return
BatchDone ==
    /\ run = "pending"
    /\ batchResolved
    /\ IF moreBatches(files, i)
       THEN LET started == startBatch(progress, item, files,
                                      batchOf(files, i + batchSize))
            IN  /\ i' = i + batchSize
                /\ progress' = started.prog
                /\ item' = started.its
                /\ UNCHANGED run
       ELSE /\ progress' = finallyBlock(progress)
            /\ run' = "returned"
            /\ UNCHANGED <<i, item>>
    /\ UNCHANGED <<cloudflareConfig, r2Client, files, r2, source, thrown,
                   calls, submitted, faults, r2AtDispatch, tableVars,
                   pureVars, modeVars, connVars>>

\* ------------------------------------------------------------------------
\* fileExistsInR2: the HEAD probe and what the method makes of it
\* ------------------------------------------------------------------------
\* what the destination answers to HeadObject(key): "ok", or the error thrown
headOutcomes(key) ==
    (IF key \in DOMAIN r2 THEN {"ok"} ELSE {"NotFound"})
    \cup (IF faults < MaxFaults THEN {"Forbidden"} ELSE {})

\* a probe whose result is dropped: the file is always reported absent
fileExistsInR2_alwaysAbsent(client, probe) ==
    IF ~client THEN "throw" ELSE "false"

\* lines 196-219: TRUE when send resolves; in the catch block only the
\* method's own "not initialized" error is rethrown ("throw"), every error
\* of the probe itself gives FALSE
fileExistsInR2(client, probe) ==
    IF ~client THEN "throw"
    ELSE IF probe = "ok" THEN "true"
    ELSE "false"

\* the continuation of `await this.fileExistsInR2(normalizedPath)` for item n;
\* when the file is reported absent, uploadToR2 runs up to its fetch
HeadResponse(n) ==
    /\ run = "pending"
    /\ n \in DOMAIN item
    /\ item[n].st = "head"
    /\ \E probe \in headOutcomes(normalizePath(files[n])) :
         LET exists == fileExistsInR2(r2Client, probe)
             probed == [item EXCEPT ![n].probe = probe]
         IN  /\ faults' = IF probe \in {"ok", "NotFound"} THEN faults ELSE faults + 1
             /\ IF exists = "true"
                THEN LET c == countCompleted(progress, probed, n)
                     IN  progress' = c.prog /\ item' = c.its
                ELSE IF exists = "false"
                THEN /\ item' = [probed EXCEPT ![n].st = "fetch",
                                               ![n].uploads = @ + 1]
                     /\ UNCHANGED progress
                ELSE LET f == countFailed(progress, probed, n, files[n],
                                 <<"Cloudflare R2 client is not initialized. Please connect to Cloudflare R2 first.">>)
                     IN  progress' = f.prog /\ item' = f.its
    /\ UNCHANGED <<cloudflareConfig, r2Client, files, i, r2, source, run,
                   thrown, calls, submitted, r2AtDispatch, tableVars,
                   pureVars, modeVars, connVars>>

\* ------------------------------------------------------------------------
\* The /api/migrate-to-r2 route
\* ------------------------------------------------------------------------
\* what the two stores can do to one request for key
serverOutcomes(key) ==
    (IF key \in source THEN {"ok"} ELSE {"dlerror"})
    \cup (IF faults < MaxFaults THEN {"dlerror", "nodata", "puterror"} ELSE {})

\* a route that ignores the custom domain
fileUrl_defaultOnly(domain, key) ==
    <<"https://{bucket}.{account}.r2.cloudflarestorage.com/">> \o key

\* lines 104-110: domain is validCloudflareConfig.customDomain, "" when the
\* request carries none
fileUrl(domain, key) ==
    IF domain # ""
    THEN <<"https://", domain, "/">> \o key
    ELSE <<"https://{bucket}.{account}.r2.cloudflarestorage.com/">> \o key

\* POST: the response the route gives for filePath when the download and the
\* PutObject end as `outcome` says
POST(domain, filePath, outcome) ==
    LET normalizedFilePath == normalizePath(filePath)
    IN  CASE outcome = "dlerror" ->
               [status |-> 404, success |-> FALSE, url |-> <<>>,
                error |-> <<"Error downloading file: ", "Object not found">>]
          [] outcome = "nodata" ->
               [status |-> 404, success |-> FALSE, url |-> <<>>,
                error |-> <<"File could not be downloaded">>]
          [] outcome = "puterror" ->
               [status |-> 500, success |-> FALSE, url |-> <<>>,
                error |-> <<"Failed to upload to R2: ", "AccessDenied">>]
          [] outcome = "ok" ->
               [status |-> 200, success |-> TRUE,
                url |-> fileUrl(domain, normalizedFilePath), error |-> <<>>]

\* the PutObjectCommand of the route: sent only after a download with a body
putObject(bucket, filePath, outcome) ==
    LET normalizedFilePath == normalizePath(filePath)
    IN  IF outcome = "ok"
        THEN [k \in DOMAIN bucket \cup {normalizedFilePath} |->
                IF k = normalizedFilePath THEN getContentType(normalizedFilePath)
                ELSE bucket[k]]
        ELSE bucket

\* ------------------------------------------------------------------------
\* uploadToR2 after its fetch
\* ------------------------------------------------------------------------
\* JSON.stringify of the route's failure body, as response.text() returns it
errorText(response) ==
    <<"{\"success\":false,\"error\":\"">> \o response.error \o <<"\"}">>

\* a client that only treats 404 as a failure and never reads result.success
uploadToR2Error_only404(response) ==
    IF response.status = 404
    THEN <<"Failed to upload file to R2: ">> \o errorText(response)
    ELSE <<>>

\* lines 309-330: <<>> when the upload is accepted, else the message of the
\* error thrown.  The throw of line 315 is inside the try whose catch is
\* line 316, so a non-ok response always ends in the throw of line 318.
uploadToR2Error(response) ==
    IF response.status # 200
    THEN <<"Failed to upload file to R2: ">> \o errorText(response)
    ELSE IF ~response.success
    THEN (IF response.error # <<>> THEN response.error
          ELSE <<"Failed to upload file to R2">>)
    ELSE <<>>

\* lines 263-268: cleanCloudflareConfig carries no customDomain
cleanCustomDomain == ""

\* fetch resolves for item n: the route has handled the request (download,
\* PutObject, response), and uploadToR2 and migrateFile continue
FetchResponse(n) ==
    /\ run = "pending"
    /\ n \in DOMAIN item
    /\ item[n].st = "fetch"
    /\ LET filePath == normalizePath(files[n])
       IN  \E outcome \in serverOutcomes(filePath) :
             LET message == uploadToR2Error(POST(cleanCustomDomain, filePath, outcome))
                 served == [item EXCEPT ![n].srv = outcome]
                 next == IF message = <<>>
                         THEN countCompleted(progress, served, n)
                         ELSE countFailed(progress, served, n, files[n], message)
             IN  /\ faults' = IF outcome = "ok" THEN faults ELSE faults + 1
                 /\ r2' = putObject(r2, filePath, outcome)
                 /\ progress' = next.prog
                 /\ item' = next.its
    /\ UNCHANGED <<cloudflareConfig, r2Client, files, i, source, run, thrown,
                   calls, submitted, r2AtDispatch, tableVars, pureVars, modeVars, connVars>>

\* lines 293, 331-336: the 30 second timer aborts the fetch of item n; the
\* route may or may not have completed its PutObject by then
FetchTimeout(n) ==
    /\ run = "pending"
    /\ n \in DOMAIN item
    /\ item[n].st = "fetch"
    /\ faults < MaxFaults
    /\ faults' = faults + 1
    /\ LET f == countFailed(progress, [item EXCEPT ![n].srv = "timeout"], n,
                  files[n],
                  <<"Request timed out after 30 seconds for file: ">>
                      \o normalizePath(files[n]))
       IN  progress' = f.prog /\ item' = f.its
    /\ \E put \in {"ok", "puterror"} :
         r2' = putObject(r2, normalizePath(files[n]), put)
    /\ UNCHANGED <<cloudflareConfig, r2Client, files, i, source, run, thrown,
                   calls, submitted, r2AtDispatch, tableVars, pureVars, modeVars, connVars>>

Next ==
    \/ \E fs \in Selections : MigrateFilesInProgress(fs)
    \/ \E fs \in Selections : MigrateFilesNotInitialized(fs)
    \/ \E fs \in Selections : MigrateFiles(fs)
    \/ BatchDone
    \/ \E n \in 1..MaxFiles : HeadResponse(n)
    \/ \E n \in 1..MaxFiles : FetchResponse(n)
    \/ \E n \in 1..MaxFiles : FetchTimeout(n)

Spec == Init /\ [][Next]_vars

\* ------------------------------------------------------------------------
\* The batch engine when a destination call may never be answered
\* ------------------------------------------------------------------------
\* lines 196-219: `await this.r2Client.send(command)` is given no abort
\* signal and no timer, so when the destination never answers the probe of
\* item n the await never resumes and migrateFile(n) stays pending
HeadStalls(n) ==
    /\ run = "pending"
    /\ n \in DOMAIN item
    /\ item[n].st = "head"
    /\ faults < MaxFaults
    /\ faults' = faults + 1
    /\ item' = [item EXCEPT ![n].st = "stalled"]
    /\ UNCHANGED <<cloudflareConfig, r2Client, progress, files, i, r2, source,
                   run, thrown, calls, submitted, r2AtDispatch, tableVars,
                   pureVars, modeVars, connVars>>

\* a fetch that never responds is the case of FetchTimeout: the timer of
\* line 293 aborts it
StallNext ==
    \/ Next
    \/ \E n \in 1..MaxFiles : HeadStalls(n)

\* the fetch of item n is awaiting its response
fetchPending(n) == n \in DOMAIN item /\ item[n].st = "fetch"

\* the continuations the event loop runs once they are ready: a resolved
\* Promise.all resumes migrateFiles, and a probe that has not stalled is
\* answered.  No fetch stays pending for ever: it is answered, or the timer
\* of line 293 aborts it.  This is weak fairness of
\* FetchResponse(n) \/ FetchTimeout(n), the only steps that end a pending
\* fetch, one of which is enabled whenever the fetch is pending; it is
\* stated on the state.
StallSpec ==
    /\ Init
    /\ [][StallNext]_vars
    /\ WF_vars(BatchDone)
    /\ WF_vars(\E n \in 1..MaxFiles : HeadResponse(n))
    /\ \A n \in 1..MaxFiles : []<>~fetchPending(n)

\* ------------------------------------------------------------------------
\* Table mode: TableMigration.startMigration (src/unnamed/part_002)
\* ------------------------------------------------------------------------
\* JavaScript values a column can hold
undefined == [type |-> "undefined", s |-> <<>>]
null == [type |-> "null", s |-> <<>>]
number(digits) == [type |-> "number", s |-> digits]
string(chars) == [type |-> "string", s |-> chars]

\* !value
falsy(value) ==
    \/ value.type \in {"undefined", "null"}
    \/ value.type = "string" /\ value.s = <<>>
    \/ value.type = "number" /\ value.s = <<"0">>

WhiteSpace == {" ", "\t", "\n"}

RECURSIVE trimStart(_)
trimStart(s) ==
    IF Len(s) > 0 /\ s[1] \in WhiteSpace THEN trimStart(Tail(s)) ELSE s

RECURSIVE trimEnd(_)
trimEnd(s) ==
    IF Len(s) > 0 /\ s[Len(s)] \in WhiteSpace
    THEN trimEnd(SubSeq(s, 1, Len(s) - 1))
    ELSE s

\* String.prototype.trim
trim(s) == trimEnd(trimStart(s))

\* a test that accepts every string, blank ones included
validImageUrl_anyString(imageUrl) == imageUrl.type = "string"

\* the negation of the condition of line 356
validImageUrl(imageUrl) ==
    ~(falsy(imageUrl) \/ imageUrl.type # "string" \/ trim(imageUrl.s) = <<>>)

\* String.prototype.split for a one-character separator
RECURSIVE split(_, _)
split(s, sep) ==
    IF \A k \in 1..Len(s) : s[k] # sep THEN <<s>>
    ELSE LET k == CHOOSE n \in 1..Len(s) :
                     s[n] = sep /\ \A m \in 1..(n - 1) : s[m] # sep
         IN  <<SubSeq(s, 1, k - 1)>> \o split(SubSeq(s, k + 1, Len(s)), sep)

\* Array.prototype.join
RECURSIVE join(_, _)
join(parts, sep) ==
    IF Len(parts) = 0 THEN <<>>
    ELSE IF Len(parts) = 1 THEN parts[1]
    ELSE parts[1] \o <<sep>> \o join(Tail(parts), sep)

\* origin of the URLs the route returns, kept as one token of the string
R2Origin == "https://{bucket}.{account}.r2.cloudflarestorage.com/"

HttpsScheme == <<"h","t","t","p","s",":","/","/">>

\* the URL parser on a string without surrounding white space, for the
\* inputs of the model: an absolute https URL with a host, no dot segments
\* and nothing to percent-encode parses, its pathname runs from the first
\* '/' after the host to the query or fragment and is "/" when there is
\* none; a string without a scheme does not parse
parseURL(t) ==
    IF Len(t) >= 1 /\ t[1] = R2Origin
    THEN [ok |-> TRUE, pathname |-> <<"/">> \o Tail(t)]
    ELSE IF Len(t) >= 3 /\ t[1] = "https://" /\ t[3] = "/"
    THEN [ok |-> TRUE, pathname |-> SubSeq(t, 3, Len(t))]
    ELSE IF /\ Len(t) > Len(HttpsScheme)
            /\ SubSeq(t, 1, Len(HttpsScheme)) = HttpsScheme
            /\ t[Len(HttpsScheme) + 1] \notin {"/", "?", "#"}
    THEN LET rest == SubSeq(t, Len(HttpsScheme) + 1, Len(t))
             stops == {k \in 1..Len(rest) : rest[k] \in {"/", "?", "#"}}
             ends == {k \in 1..Len(rest) : rest[k] \in {"?", "#"}}
             hostEnd == IF stops = {} THEN Len(rest) + 1
                        ELSE CHOOSE k \in stops : \A m \in stops : k <= m
             pathEnd == IF ends = {} THEN Len(rest) + 1
                        ELSE CHOOSE k \in ends : \A m \in ends : k <= m
         IN  [ok |-> TRUE,
              pathname |-> IF hostEnd < pathEnd
                           THEN SubSeq(rest, hostEnd, pathEnd - 1)
                           ELSE <<"/">>]
    ELSE [ok |-> FALSE, pathname |-> <<>>]

\* new URL(input): ok is FALSE when the constructor throws
URL(input) == parseURL(trim(input))

\* Array.prototype.findIndex(part => part === name), 0-based, -1 if none
findIndex(pathParts, name) ==
    LET hits == {k \in 1..Len(pathParts) : pathParts[k] = name}
    IN  IF hits = {} THEN -1
        ELSE (CHOOSE k \in hits : \A m \in hits : k <= m) - 1

\* lines 370-389: the file path derived from the value of the URL column
extractFilePath(imageUrl, bucketName) ==
    LET url == URL(imageUrl)
    IN  IF ~url.ok THEN imageUrl
        ELSE LET pathParts == split(url.pathname, "/")
                 bucketIndex == findIndex(pathParts, bucketName)
             IN  IF bucketIndex # -1 /\ bucketIndex < Len(pathParts) - 1
                 THEN join(SubSeq(pathParts, bucketIndex + 2, Len(pathParts)), "/")
                 ELSE pathParts[Len(pathParts)]

\* supabaseConfig.bucketName
bucketName == <<"b","k">>

selectedImageColumn == "image_url"

\* values of the URL column the tables of the model are made of
AllValues ==
    << string(<<"h","t","t","p","s",":","/","/","h","/","s","/","b","k","/","i","/","a",".","p","n","g">>),
       undefined,
       string(<<"h","t","t","p","s",":","/","/","h","/","b","k","/">>),
       string(<<"h","t","t","p","s",":","/","/","h","/","s","/","x","/","b",".","p","n","g">>),
       string(<<"c",".","p","d","f">>),
       number(<<"4","2">>),
       string(<<" "," ">>),
       string(<<"h","t","t","p","s",":","/","/","h","/","s","/","b","k">>),
       string(<<"h","t","t","p","s",":","/","/","h","/","b","k","/","b","k","/","e">>),
       string(<<>>),
       null,
       string(<<"h","t","t","p","s",":","/","/","h">>) >>

\* the tables a session can start with: MaxRows consecutive values each
Windows == {o \in 0..(Len(AllValues) - 1) : o % MaxRows = 0}

TableAt(o) ==
    [id \in 1..Min(MaxRows, Len(AllValues) - o) |->
        [image_url |-> AllValues[o + id], name |-> id]]

\* keys of the objects the source bucket holds in a table-mode session
TableKeys ==
    { <<"i","/","a",".","p","n","g">>, <<"b",".","p","n","g">>,
      <<"c",".","p","d","f">>, <<"b","k","/","e">>,
      <<"i","/","t","e","s","t","-","1">> }

\* the result of select('*') as loadRows stores it in state.rows
loadedRows(tbl) ==
    [k \in 1..Cardinality(DOMAIN tbl) |->
        [id |-> k, image_url |-> tbl[k].image_url, name |-> tbl[k].name]]

NewRowLog ==
    [key |-> <<>>, requests |-> 0, updates |-> 0, srv |-> "none",
     upd |-> "none", url |-> <<>>, incC |-> 0, incF |-> 0]

NoValidUrlMessage ==
    <<"No valid image URL found in the \"", selectedImageColumn, "\" column">>

NoFilePathMessage == <<"Could not extract file path from URL">>

\* a handler that records the message without counting the row
failRow_uncounted(prog, log, id, message) ==
    [prog |-> [prog EXCEPT
                 !.errors = [r \in DOMAIN prog.errors \cup {id} |->
                               IF r = id THEN message ELSE prog.errors[r]]],
     log  |-> log]

\* progress.failed++; progress.errors[row.id] = message
failRow(prog, log, id, message) ==
    [prog |-> [prog EXCEPT
                 !.failed = @ + 1,
                 !.errors = [r \in DOMAIN prog.errors \cup {id} |->
                               IF r = id THEN message ELSE prog.errors[r]]],
     log  |-> [log EXCEPT ![id].incF = @ + 1]]

\* a loop that sends the request whatever file path was derived
emptyFilePath_ignored(filePath) == FALSE

\* the condition of line 391
emptyFilePath(filePath) == filePath = <<>>

\* lines 353-406: the loop from row k of the selection up to its next await
\* (the fetch of a row with a file path) or to its end
RECURSIVE processRows(_, _, _, _)
processRows(prog, log, sel, k) ==
    IF k > Len(sel) THEN [prog |-> prog, log |-> log, row |-> k, at |-> "end"]
    ELSE LET row == sel[k]
             imageUrl == row[selectedImageColumn]
         IN  IF ~validImageUrl(imageUrl)
             THEN LET f == failRow(prog, log, row.id, NoValidUrlMessage)
                  IN  processRows(f.prog, f.log, sel, k + 1)
             ELSE LET filePath == extractFilePath(imageUrl.s, bucketName)
                      keyed == [log EXCEPT ![row.id].key = filePath]
                  IN  IF emptyFilePath(filePath)
                      THEN LET f == failRow(prog, keyed, row.id, NoFilePathMessage)
                           IN  processRows(f.prog, f.log, sel, k + 1)
                      ELSE [prog |-> prog,
                            log |-> [keyed EXCEPT ![row.id].requests = @ + 1],
                            row |-> k, at |-> "fetch"]

\* the handler runs on from row k: to the fetch of the next row that has a
\* file path, or through lines 451-467 when no row is left
resume(prog, log, sel, k) ==
    LET next == processRows(prog, log, sel, k)
    IN  /\ rowLog' = next.log
        /\ IF next.at = "fetch"
           THEN /\ migrationProgress' = next.prog
                /\ rowIdx' = next.row
                /\ tpc' = "fetch"
                /\ currentlyMigratingRow' = sel[next.row].id
                /\ UNCHANGED reloading
           ELSE /\ migrationProgress' = [next.prog EXCEPT !.inProgress = FALSE]
                /\ rowIdx' = 0
                /\ tpc' = "idle"
                /\ currentlyMigratingRow' = 0
                /\ reloading' = (reloading \/ next.prog.completed > 0)

\* state.rows.filter(row => row.selected), the selection given as a set of ids
selectedOf(rs, sel) == SelectSeq(rs, LAMBDA row : row.id \in sel)

\* lines 324-338: the handler returns after an alert
StartMigrationRefused(sel) ==
    /\ calls < MaxCalls
    /\ tpc = "idle"
    /\ ~isCloudflareConnected \/ Len(selectedOf(rows, sel)) = 0
    /\ alerted' = IF ~isCloudflareConnected
                  THEN "Please connect to Cloudflare R2 first"
                  ELSE "Please select at least one row to migrate"
    /\ calls' = calls + 1
    /\ UNCHANGED <<table, rows, selectedRows, rowIdx, tpc, reloading,
                   migrationProgress, migratedRows, closureMigratedRows,
                   currentlyMigratingRow, isCloudflareConnected, customDomain, rowLog,
                   putLog, actionResult, listing>>
    /\ UNCHANGED <<fileVars, r2, source, faults, pureVars, modeVars, connVars>>

\* lines 340-406: the run is accepted and proceeds to its first await
StartMigration(sel) ==
    /\ calls < MaxCalls
    /\ tpc = "idle"
    /\ isCloudflareConnected
    /\ Len(selectedOf(rows, sel)) > 0
    /\ submitted + Len(selectedOf(rows, sel)) <= MaxSubmitted
    /\ submitted' = submitted + Len(selectedOf(rows, sel))
    /\ calls' = calls + 1
    /\ selectedRows' = selectedOf(rows, sel)
    /\ closureMigratedRows' = migratedRows
    /\ resume([total |-> Len(selectedOf(rows, sel)), completed |-> 0,
               failed |-> 0, errors |-> NoErrors, inProgress |-> TRUE],
              [id \in DOMAIN table |-> NewRowLog], selectedOf(rows, sel), 1)
    /\ putLog' = <<>>
    /\ UNCHANGED <<table, rows, migratedRows, isCloudflareConnected, customDomain, alerted,
                   actionResult, listing>>
    /\ UNCHANGED <<cloudflareConfig, r2Client, progress, files, i, item, run,
                   thrown, r2AtDispatch>>
    /\ UNCHANGED <<r2, source, faults, pureVars, modeVars, connVars>>

\* a transfer that moves the object: the source copy is removed once the
\* destination has it
sourceAfterTransfer_move(src, filePath, outcome) ==
    IF outcome = "ok" THEN src \ {normalizePath(filePath)} ELSE src

\* the source bucket after one request: download is the only call the route
\* and the server action make on it (part_003 lines 53-55, part_000 lines
\* 133-135)
sourceAfterTransfer(src, filePath, outcome) == src

\* a route that builds and sends the PutObjectCommand before it looks at
\* what the download returned
sendsPutObject_beforeDownloadCheck(outcome) == TRUE

\* part_003 lines 53-103 and part_000 lines 133-179: the PutObjectCommand is
\* sent only past the two early returns that follow the download
sendsPutObject(outcome) == outcome \in {"ok", "puterror"}

\* the destination and the log of PutObjectCommands after one request
transferred(bucket, log, filePath, outcome) ==
    IF sendsPutObject(outcome)
    THEN [r2 |-> putObject(bucket, filePath, outcome),
          putLog |-> Append(log, normalizePath(filePath))]
    ELSE [r2 |-> bucket, putLog |-> log]

UnknownMigrationError == <<"Unknown error during migration">>

\* lines 408-438: fetch and response.json() have resolved for the row being
\* awaited; on success the update is sent, otherwise the row has failed
\* lines 414-416: the URL the handler builds itself when the response
\* carries none
fallbackUrl(domain, filePath) ==
    IF domain # ""
    THEN <<"https://", domain, "/">> \o filePath
    ELSE <<R2Origin>> \o filePath

RouteResponse ==
    /\ tpc = "fetch"
    /\ LET row == selectedRows[rowIdx]
           filePath == rowLog[row.id].key
       IN  \E outcome \in serverOutcomes(normalizePath(filePath)) :
             LET result == POST(customDomain, filePath, outcome)
                 after == transferred(r2, putLog, filePath, outcome)
                 served == [rowLog EXCEPT ![row.id].srv = outcome]
             IN  /\ faults' = IF outcome = "ok" THEN faults ELSE faults + 1
                 /\ r2' = after.r2
                 /\ putLog' = after.putLog
                 /\ source' = sourceAfterTransfer(source, filePath, outcome)
                 /\ IF result.success
                    THEN /\ rowLog' = [served EXCEPT
                                         ![row.id].url =
                                             IF result.url # <<>> THEN result.url
                                             ELSE fallbackUrl(customDomain, filePath),
                                         ![row.id].updates = @ + 1]
                         /\ tpc' = "update"
                         /\ UNCHANGED <<migrationProgress, rowIdx,
                                        currentlyMigratingRow, reloading>>
                    ELSE LET f == failRow(migrationProgress, served, row.id,
                                          IF result.error # <<>> THEN result.error
                                          ELSE UnknownMigrationError)
                         IN  resume(f.prog, f.log, selectedRows, rowIdx + 1)
    /\ UNCHANGED <<table, rows, selectedRows, migratedRows,
                   closureMigratedRows, isCloudflareConnected, customDomain, alerted,
                   actionResult, listing>>
    /\ UNCHANGED <<fileVars, calls, pureVars, modeVars, connVars>>

\* what the catch block of line 439 can be handed by a failed fetch or
\* response.json(): an Error with its message, or a value that is no Error
fetchRejections ==
    { [isError |-> TRUE, message |-> <<"Failed to fetch">>],
      [isError |-> FALSE, message |-> <<>>] }

\* the updateError thrown at line 426: the error object of the database
\* client, which may or may not be an instance of Error
updateErrors ==
    { [isError |-> TRUE, message |-> <<"new row violates row-level security policy">>],
      [isError |-> FALSE, message |-> <<"new row violates row-level security policy">>] }

\* line 441
catchMessage(error) ==
    IF error.isError THEN error.message ELSE <<"Network error">>

\* lines 439-442 after a rejected fetch: the request did not reach the route
FetchRejected ==
    /\ tpc = "fetch"
    /\ faults < MaxFaults
    /\ faults' = faults + 1
    /\ LET row == selectedRows[rowIdx]
       IN  \E error \in fetchRejections :
             LET f == failRow(migrationProgress,
                              [rowLog EXCEPT ![row.id].srv = "rejected"],
                              row.id, catchMessage(error))
             IN  resume(f.prog, f.log, selectedRows, rowIdx + 1)
    /\ UNCHANGED <<table, rows, selectedRows, migratedRows,
                   closureMigratedRows, isCloudflareConnected, customDomain, alerted,
                   putLog, actionResult, listing>>
    /\ UNCHANGED <<fileVars, r2, source, calls, pureVars, modeVars, connVars>>

\* an update without its filter: every row of the table is written
update_allRows(tbl, column, value, id) ==
    [r \in DOMAIN tbl |-> [tbl[r] EXCEPT ![column] = value]]

\* .update({ [selectedImageColumn]: newUrl }).eq('id', row.id)
update(tbl, column, value, id) ==
    [r \in DOMAIN tbl |->
        IF r = id THEN [tbl[r] EXCEPT ![column] = value] ELSE tbl[r]]

\* a handler that does not look at updateError
updateFailed_unchecked(outcome) == FALSE

\* the condition of line 425
updateFailed(outcome) == outcome # "ok"

\* lines 420-442: the update of the row being awaited has returned
UpdateResponse ==
    /\ tpc = "update"
    /\ LET row == selectedRows[rowIdx]
       IN  \E outcome \in {"ok", "error"} :
             LET answered == [rowLog EXCEPT ![row.id].upd = outcome]
             IN  /\ table' = IF outcome = "ok"
                             THEN update(table, selectedImageColumn,
                                         string(rowLog[row.id].url), row.id)
                             ELSE table
                 /\ IF updateFailed(outcome)
                    THEN /\ \E error \in updateErrors :
                              LET f == failRow(migrationProgress, answered,
                                               row.id, catchMessage(error))
                              IN  resume(f.prog, f.log, selectedRows, rowIdx + 1)
                         /\ UNCHANGED migratedRows
                    ELSE /\ migratedRows' = closureMigratedRows \cup {row.id}
                         /\ resume([migrationProgress EXCEPT !.completed = @ + 1],
                                   [answered EXCEPT ![row.id].incC = @ + 1],
                                   selectedRows, rowIdx + 1)
    /\ UNCHANGED <<rows, selectedRows, closureMigratedRows,
                   isCloudflareConnected, customDomain, alerted, putLog, actionResult,
                   listing>>
    /\ UNCHANGED <<fileVars, r2, source, calls, faults, pureVars, modeVars, connVars>>

\* lines 269-305: the query of the loadRows call of line 466 has returned
LoadRowsResponse ==
    /\ reloading
    /\ reloading' = FALSE
    /\ \E outcome \in {"ok"} \cup (IF faults < MaxFaults THEN {"error"} ELSE {}) :
         /\ rows' = IF outcome = "ok" THEN loadedRows(table) ELSE rows
         /\ faults' = IF outcome = "ok" THEN faults ELSE faults + 1
    /\ UNCHANGED <<table, selectedRows, rowIdx, tpc, migrationProgress,
                   migratedRows, closureMigratedRows, currentlyMigratingRow,
                   isCloudflareConnected, customDomain, alerted, rowLog, putLog,
                   actionResult, listing>>
    /\ UNCHANGED <<fileVars, r2, source, calls, pureVars, modeVars, connVars>>

\* ------------------------------------------------------------------------
\* The migrateFileToR2 server action (src/unnamed/part_000)
\* ------------------------------------------------------------------------
\* lines 184-190 of the action: the same two templates as the route
actionFileUrl(domain, key) ==
    IF domain # ""
    THEN <<"https://", domain, "/">> \o key
    ELSE <<"https://{bucket}.{account}.r2.cloudflarestorage.com/">> \o key

\* what migrateFileToR2 returns for filePath when the download and the
\* PutObject end as `outcome` says
migrateFileToR2(domain, filePath, outcome) ==
    LET normalizedFilePath == normalizePath(filePath)
    IN  CASE outcome = "dlerror" ->
               [success |-> FALSE, url |-> <<>>,
                error |-> <<"Error downloading file: ", "Object not found">>]
          [] outcome = "nodata" ->
               [success |-> FALSE, url |-> <<>>,
                error |-> <<"File could not be downloaded">>]
          [] outcome = "puterror" ->
               [success |-> FALSE, url |-> <<>>,
                error |-> <<"Failed to upload to R2: ", "AccessDenied">>]
          [] outcome = "ok" ->
               [success |-> TRUE, url |-> actionFileUrl(domain, normalizedFilePath),
                error |-> <<>>]

\* the file paths the action is called with
ActionPaths ==
    { <<"/","/","b",".","p","n","g">>, <<"c",".","p","d","f">>, <<"z">> }

\* one call of the server action, from its request to its result
MigrateFileToR2(filePath) ==
    /\ calls < MaxCalls
    /\ calls' = calls + 1
    /\ \E outcome \in serverOutcomes(normalizePath(filePath)) :
         LET after == transferred(r2, putLog, filePath, outcome)
         IN  /\ faults' = IF outcome = "ok" THEN faults ELSE faults + 1
             /\ r2' = after.r2
             /\ putLog' = after.putLog
             /\ source' = sourceAfterTransfer(source, filePath, outcome)
             /\ actionResult' = [filePath |-> filePath, outcome |-> outcome,
                                 result |-> migrateFileToR2(customDomain, filePath,
                                                            outcome)]
    /\ UNCHANGED <<table, rows, selectedRows, rowIdx, tpc, reloading,
                   migrationProgress, migratedRows, closureMigratedRows,
                   currentlyMigratingRow, isCloudflareConnected, customDomain, alerted,
                   rowLog, listing>>
    /\ UNCHANGED <<fileVars, pureVars, modeVars, connVars>>

\* ------------------------------------------------------------------------
\* MigrationService.listFiles (src/lib/migration-service.ts)
\* ------------------------------------------------------------------------
\* a container path as the store knows it: without a trailing '/'
containerOf(normalizedPath) ==
    IF Len(normalizedPath) > 0 /\ normalizedPath[Len(normalizedPath)] = "/"
    THEN SubSeq(normalizedPath, 1, Len(normalizedPath) - 1)
    ELSE normalizedPath

\* the entries directly under a container, an object with its id, a folder
\* without
list(src, normalizedPath) ==
    LET under == IF normalizedPath = <<>> THEN src
                 ELSE {k \in src :
                         /\ Len(k) > Len(normalizedPath) + 1
                         /\ SubSeq(k, 1, Len(normalizedPath) + 1)
                               = normalizedPath \o <<"/">>}
        below(k) == IF normalizedPath = <<>> THEN k
                    ELSE SubSeq(k, Len(normalizedPath) + 2, Len(k))
    IN  {[name |-> split(below(k), "/")[1],
          id |-> Len(split(below(k), "/")) = 1] : k \in under}

\* storage.from(bucket).list(normalizedPath), lines 111-113, when it returns
\* data.  What the store makes of a path that ends in '/' is not fixed by
\* the sources: it lists the folder (lenient) or finds nothing under it.
listRequest(src, normalizedPath, lenient) ==
    IF normalizedPath # containerOf(normalizedPath)
    THEN IF lenient THEN list(src, containerOf(normalizedPath)) ELSE {}
    ELSE list(src, normalizedPath)

\* a recursion that catches the failure of a sub-folder and goes on
subFolderThrown_caught(subFiles) == FALSE

\* line 140: the awaited listFiles call of a sub-folder has thrown
subFolderThrown(subFiles) == subFiles.thrown

\* lines 96-159: whether the call throws, and the paths of the records it
\* returns; `failing` are the containers whose list request fails
RECURSIVE listFiles(_, _, _, _)
listFiles(src, path, failing, lenient) ==
    LET normalizedPath == normalizePath(path)
    IN  IF shouldSkipPath(normalizedPath) THEN [thrown |-> FALSE, files |-> {}]
        ELSE IF containerOf(normalizedPath) \in failing
        THEN [thrown |-> TRUE, files |-> {}]
        ELSE LET data == listRequest(src, normalizedPath, lenient)
                 itemPath(entry) == IF normalizedPath # <<>>
                                    THEN normalizedPath \o <<"/">> \o entry.name
                                    ELSE entry.name
                 kept == {entry \in data : ~shouldSkipPath(itemPath(entry))}
                 folders == {entry \in kept : ~entry.id}
                 subFiles == [entry \in folders |->
                                listFiles(src, itemPath(entry), failing, lenient)]
             IN  IF \E entry \in folders : subFolderThrown(subFiles[entry])
                 THEN [thrown |-> TRUE, files |-> {}]
                 ELSE [thrown |-> FALSE,
                       files |-> {itemPath(entry) : entry \in kept \ folders}
                                 \cup UNION {subFiles[entry].files :
                                               entry \in folders}]

\* the start paths listFiles is called with in a table-mode session
StartPaths == { <<>>, <<"i">>, <<"/","b","k">> }

\* one listFiles call, from its first list request to its result
ListFiles(path, failing, lenient) ==
    /\ calls < MaxCalls
    /\ failing # {} => faults < MaxFaults
    /\ calls' = calls + 1
    /\ faults' = IF failing = {} THEN faults ELSE faults + 1
    /\ LET listed == listFiles(source, path, failing, lenient)
       IN  listing' = [path |-> path, failing |-> failing, lenient |-> lenient,
                       result |-> IF listed.thrown THEN "thrown" ELSE "returned",
                       files |-> listed.files]
    /\ UNCHANGED <<table, rows, selectedRows, rowIdx, tpc, reloading,
                   migrationProgress, migratedRows, closureMigratedRows,
                   currentlyMigratingRow, isCloudflareConnected, customDomain,
                   alerted, rowLog, putLog, actionResult>>
    /\ UNCHANGED <<fileVars, r2, source, pureVars, modeVars, connVars>>

\* a MigrationService constructed with a complete configuration, before
\* its first call, and an empty destination
EngineIdle ==
    /\ cloudflareConfig = [f \in CfFields |-> TRUE]
    /\ r2Client = r2ClientInitialised(cloudflareConfig)
    /\ progress = InitialProgress
    /\ files = <<>>
    /\ i = 0
    /\ item = <<>>
    /\ run = "none"
    /\ thrown = "none"
    /\ submitted = 0
    /\ r2AtDispatch = {}
    /\ r2 = [k \in {} |-> ""]
    /\ calls = 0
    /\ faults = 0

\* the table-mode component is mounted on a loaded table; the batch engine
\* is constructed and idle
CustomDomains == <<"", "cdn.example.com">>

\* the sessions of the model: each table with one configuration, with and
\* without a custom domain in turn
Sessions ==
    {[window |-> o, customDomain |-> CustomDomains[((o \div MaxRows) % 2) + 1]] :
        o \in Windows}

TableInit ==
    /\ \E session \in Sessions :
         /\ table = TableAt(session.window)
         /\ customDomain = session.customDomain
    /\ rows = loadedRows(table)
    /\ selectedRows = <<>>
    /\ rowIdx = 0
    /\ tpc = "idle"
    /\ reloading = FALSE
    /\ migrationProgress = nullProgress
    /\ migratedRows = {}
    /\ closureMigratedRows = {}
    /\ currentlyMigratingRow = 0
    /\ isCloudflareConnected \in BOOLEAN
    /\ alerted = "none"
    /\ rowLog = [id \in DOMAIN table |-> NewRowLog]
    /\ putLog = <<>>
    /\ actionResult = NoResult
    /\ listing = NoListing
    /\ EngineIdle
    /\ source = TableKeys
    /\ NoCall
    /\ NoFileMode
    /\ NoStore

\* the selections a run is started with: no row, one row, every row
RowSelections == {{}, 1..MaxRows} \cup {{k} : k \in 1..MaxRows}

TableNext ==
    \/ \E sel \in RowSelections : StartMigrationRefused(sel)
    \/ \E sel \in RowSelections : StartMigration(sel)
    \/ RouteResponse
    \/ FetchRejected
    \/ UpdateResponse
    \/ LoadRowsResponse
    \/ \E filePath \in ActionPaths : MigrateFileToR2(filePath)
    \/ \E path \in StartPaths :
         \E failing \in {{}, {normalizePath(path)}} :
             ListFiles(path, failing, TRUE)

TableSpec == TableInit /\ [][TableNext]_vars

\* ------------------------------------------------------------------------
\* listFiles called on its own, on buckets of several shapes
\* ------------------------------------------------------------------------
\* a bucket with folders two levels deep, with folders and objects the skip
\* policy matches, and with a folder named test
DeepKeys ==
    { <<"a",".","j","p","g">>,
      <<"i","/","a",".","p","n","g">>,
      <<"i","/","d","/","f",".","g","i","f">>,
      <<"i","/","d","/","t","e","s","t","-","2">>,
      <<"i","/","t","e","s","t","/","y">>,
      <<"t","e","s","t","/","x">>,
      <<"e","x","a","m","p","l","e","s","/","z">>,
      <<".","e","m","p","t","y","F","o","l","d","e","r","P","l","a","c","e","h","o","l","d","e","r">> }

ListSources == { {}, TableKeys, DeepKeys }

\* start paths: the root, folders, with a leading, a repeated and a
\* trailing '/', a skipped folder, a folder that does not exist
ListPaths ==
    { <<>>, <<"/","/">>, <<"i">>, <<"/","i">>, <<"i","/","/","d">>,
      <<"i","/">>, <<"e","x","a","m","p","l","e","s">>, <<"n","o">> }

\* the folders of a bucket, the root included
Containers(src) ==
    {<<>>} \cup UNION {{SubSeq(k, 1, n - 1) :
                          n \in {m \in 1..Len(k) : k[m] = "/"}} : k \in src}

ListInit ==
    /\ source \in ListSources
    /\ EngineIdle
    /\ NoTable
    /\ NoCall
    /\ NoFileMode
    /\ NoStore

ListNext ==
    \E path \in ListPaths :
        \E failing \in {{}} \cup {{c} : c \in Containers(source)} :
            \E lenient \in BOOLEAN : ListFiles(path, failing, lenient)

ListSpec == ListInit /\ [][ListNext]_vars

\* ------------------------------------------------------------------------
\* File mode: FileMigration.startMigration
\* (src/components/app/FileMigration.tsx)
\* ------------------------------------------------------------------------
\* what listFiles('i') has returned on a bucket holding these two objects,
\* as loadFiles stores it in state.files: nothing selected (line 158)
LoadedPaths ==
    << <<"i","/","a",".","p","n","g">>, <<"i","/","c",".","p","d","f">> >>

loadedFiles ==
    [k \in 1..Len(LoadedPaths) |-> [path |-> LoadedPaths[k], selected |-> FALSE]]

isSelected(file) == file.selected

\* state.files.filter(file => file.selected), as paths
selectedFilesOf(fs) ==
    LET chosen == SelectSeq(fs, isSelected)
    IN  [k \in 1..Len(chosen) |-> chosen[k].path]

\* lines 405-409: the disabled attribute of the start button
startDisabled ==
    \/ migrationProgress # nullProgress /\ migrationProgress.inProgress
    \/ Len(selectedFilesOf(stateFiles)) = 0

\* a startMigration call that has reached its first await: the closure holds
\* the state of the render in which the button was clicked
NewHandler(fs, migrated) ==
    LET selectedFiles == selectedFilesOf(fs)
    IN  [selectedFiles |-> selectedFiles,
         files |-> fs,
         migratedFiles |-> migrated,
         pos |-> 1,
         completed |-> 0,
         failed |-> 0,
         errors |-> NoErrors,
         requests |-> [k \in 1..Len(selectedFiles) |-> IF k = 1 THEN 1 ELSE 0],
         pc |-> "await"]

\* lines 191-215: a click on the enabled start button, up to the first
\* await of migrateFileToR2
FileStartMigration ==
    /\ calls < MaxCalls
    /\ ~startDisabled
    /\ calls' = calls + 1
    /\ handlers' = Append(handlers, NewHandler(stateFiles, migratedFiles))
    /\ currentlyMigratingFile' = selectedFilesOf(stateFiles)[1]
    /\ UNCHANGED <<stateFiles, migratedFiles, totalMigratedCount,
                   totalFailedCount>>
    /\ UNCHANGED <<fileVars, r2, source, faults, tableVars, pureVars, connVars>>

\* a check that finds no error for any file
hasError_never(errors, path) == FALSE

\* !!progress.errors[file.path]
hasError(errors, path) == path \in DOMAIN errors /\ errors[path] # <<>>

\* lines 217-253: the counters of handler h after the call for its current
\* file has ended; message is <<>> when result.success
counted(h, message) ==
    LET path == h.selectedFiles[h.pos]
    IN  IF message = <<>>
        THEN [h EXCEPT !.completed = @ + 1]
        ELSE [h EXCEPT !.failed = @ + 1,
                       !.errors = [p \in DOMAIN h.errors \cup {path} |->
                                     IF p = path THEN message ELSE h.errors[p]]]

\* the payload of SET_MIGRATION_PROGRESS
trackedProgress(h, inProgress) ==
    [total |-> Len(h.selectedFiles), completed |-> h.completed,
     failed |-> h.failed, errors |-> h.errors, inProgress |-> inProgress]

\* lines 217-295 from the end of one migrateFileToR2 call of handler n to
\* the next await, or to the end of startMigration
tracked(n, message) ==
    LET h == counted(handlers[n], message)
    IN  IF h.pos < Len(h.selectedFiles)
        THEN /\ handlers' = [handlers EXCEPT ![n] =
                    [h EXCEPT !.pos = @ + 1, !.requests[h.pos + 1] = @ + 1]]
             /\ migrationProgress' = trackedProgress(h, TRUE)
             /\ currentlyMigratingFile' = h.selectedFiles[h.pos + 1]
             /\ UNCHANGED <<stateFiles, migratedFiles, totalMigratedCount,
                            totalFailedCount>>
        ELSE /\ handlers' = [handlers EXCEPT ![n] = [h EXCEPT !.pc = "done"]]
             /\ migrationProgress' = trackedProgress(h, FALSE)
             /\ currentlyMigratingFile' = <<>>
             /\ totalMigratedCount' = totalMigratedCount + h.completed
             /\ totalFailedCount' = totalFailedCount + h.failed
             /\ migratedFiles' =
                    h.migratedFiles \cup
                    {h.selectedFiles[k] : k \in
                        {m \in 1..Len(h.selectedFiles) :
                            ~hasError(h.errors, h.selectedFiles[m])}}
             /\ stateFiles' =
                    [k \in DOMAIN h.files |->
                        [h.files[k] EXCEPT !.selected =
                            @ /\ hasError(h.errors, h.files[k].path)]]

\* result.error || 'Unknown error'
resultError(result) ==
    IF result.success THEN <<>>
    ELSE IF result.error # <<>> THEN result.error
    ELSE <<"Unknown error">>

\* the migrateFileToR2 call of handler n has returned its result
FileActionResponse(n) ==
    /\ n \in DOMAIN handlers
    /\ handlers[n].pc = "await"
    /\ LET filePath == handlers[n].selectedFiles[handlers[n].pos]
       IN  \E outcome \in serverOutcomes(normalizePath(filePath)) :
             LET after == transferred(r2, putLog, filePath, outcome)
             IN  /\ faults' = IF outcome = "ok" THEN faults ELSE faults + 1
                 /\ r2' = after.r2
                 /\ putLog' = after.putLog
                 /\ source' = sourceAfterTransfer(source, filePath, outcome)
                 /\ tracked(n, resultError(migrateFileToR2(customDomain, filePath,
                                                           outcome)))
    /\ UNCHANGED <<table, rows, selectedRows, rowIdx, tpc, reloading,
                   migratedRows, closureMigratedRows, currentlyMigratingRow,
                   isCloudflareConnected, customDomain, alerted, rowLog,
                   actionResult, listing>>
    /\ UNCHANGED <<fileVars, calls, pureVars, connVars>>

\* lines 237-252: the migrateFileToR2 call of handler n has rejected (the
\* request or its response was lost); the action may have run
FileActionRejected(n) ==
    /\ n \in DOMAIN handlers
    /\ handlers[n].pc = "await"
    /\ faults < MaxFaults
    /\ faults' = faults + 1
    /\ LET filePath == handlers[n].selectedFiles[handlers[n].pos]
       IN  \E outcome \in {"dlerror", "ok"} :
             LET after == transferred(r2, putLog, filePath, outcome)
             IN  /\ r2' = after.r2
                 /\ putLog' = after.putLog
    /\ tracked(n, <<"Failed to fetch">>)
    /\ UNCHANGED <<table, rows, selectedRows, rowIdx, tpc, reloading,
                   migratedRows, closureMigratedRows, currentlyMigratingRow,
                   isCloudflareConnected, customDomain, alerted, rowLog,
                   actionResult, listing>>
    /\ UNCHANGED <<fileVars, source, calls, pureVars, connVars>>

\* the TOGGLE_FILE_SELECTION case of the reducer, for the k-th file
ToggleFileSelection(k) ==
    /\ k \in DOMAIN stateFiles
    /\ stateFiles' = [stateFiles EXCEPT ![k].selected = ~@]
    /\ UNCHANGED <<handlers, currentlyMigratingFile, migratedFiles,
                   totalMigratedCount, totalFailedCount>>
    /\ UNCHANGED <<fileVars, r2, source, calls, faults, tableVars, pureVars, connVars>>

\* the file-mode component is mounted and loadFiles has returned
FileInit ==
    /\ stateFiles = loadedFiles
    /\ handlers = <<>>
    /\ currentlyMigratingFile = <<>>
    /\ migratedFiles = {}
    /\ totalMigratedCount = 0
    /\ totalFailedCount = 0
    /\ EngineIdle
    /\ source = {LoadedPaths[k] : k \in 1..Len(LoadedPaths)}
    /\ NoTable
    /\ NoCall
    /\ NoStore

FileNext ==
    \/ FileStartMigration
    \/ \E n \in 1..MaxCalls : FileActionResponse(n)
    \/ \E n \in 1..MaxCalls : FileActionRejected(n)
    \/ \E k \in 1..Len(LoadedPaths) : ToggleFileSelection(k)

FileSpec == FileInit /\ [][FileNext]_vars

\* ------------------------------------------------------------------------
\* The connection store (src/lib/connection-store.ts), Cloudflare half.
\* store is the zustand state object: set(partial) replaces it by a new
\* object, so a value obtained from get() keeps the fields it had.
\* ------------------------------------------------------------------------

\* { ...a, ...b }
merge(a, b) ==
    [f \in (DOMAIN a) \cup (DOMAIN b) |->
        IF f \in DOMAIN b THEN b[f] ELSE a[f]]

\* set(partial) applied to the state object s
setState(s, partial) == merge(s, partial)

\* what the dialog's inputs send to setEditingCloudflareConfig, one field
\* per change (CloudflareConnection.tsx lines 81-141)
CloudflareEdits ==
    {[accountId |-> "acct-1"], [accessKeyId |-> "key-1"],
     [secretAccessKey |-> "secret-1"], [bucketName |-> "bucket-1"],
     [bucketName |-> "bucket-2"]}

\* the one set of credentials and bucket the R2 account accepts
r2Accepts(accountId, accessKeyId, secretAccessKey, bucket) ==
    /\ accountId = "acct-1"
    /\ accessKeyId = "key-1"
    /\ secretAccessKey = "secret-1"
    /\ bucket = "bucket-1"

\* the four arguments connectToCloudflare passes to connectToR2
credentials(config) ==
    [accountId |-> config.accountId, accessKeyId |-> config.accessKeyId,
     secretAccessKey |-> config.secretAccessKey,
     bucketName |-> config.bucketName]

\* server action connectToR2
connectToR2(accountId, accessKeyId, secretAccessKey, bucket) ==
    IF accountId = "" \/ accessKeyId = "" \/ secretAccessKey = ""
         \/ bucket = ""
    THEN [success |-> FALSE, error |-> "Missing required credentials"]
    ELSE IF r2Accepts(accountId, accessKeyId, secretAccessKey, bucket)
    THEN [success |-> TRUE, error |-> ""]
    ELSE [success |-> FALSE,
          error |-> "Bucket not found or not accessible. Please check your credentials and bucket name."]

\* CloudflareConfigSchema.safeParse: the messages of the failed fields, in
\* the order of the schema's keys
cloudflareIssues(config) ==
    (IF config.accountId = "" THEN <<"Account ID is required">> ELSE <<>>)
    \o (IF config.accessKeyId = "" THEN <<"Access Key ID is required">>
        ELSE <<>>)
    \o (IF config.secretAccessKey = ""
        THEN <<"Secret Access Key is required">> ELSE <<>>)
    \o (IF config.bucketName = "" THEN <<"Bucket name is required">>
        ELSE <<>>)

toastError(message) == [kind |-> "error", message |-> <<message>>]

toastSuccess(message, name) ==
    [kind |-> "success", message |-> <<message, name>>]

setEditingCloudflareConfig(s, config) ==
    setState(s, [editingCloudflareConfig |->
                    merge(s.editingCloudflareConfig, config)])

applyEditingCloudflareConfig(s) ==
    setState(s, [cloudflareConfig |->
                    merge(s.cloudflareConfig, s.editingCloudflareConfig)])

SetEditingCloudflareConfig(config) ==
    /\ store' = setEditingCloudflareConfig(store, config)
    /\ UNCHANGED <<localStorage, toasted, supabaseCall, cloudflareCall>>
    /\ UNCHANGED <<fileVars, r2, source, calls, faults, tableVars, pureVars,
                   modeVars>>

\* toggleCloudflareDialog(open); the dialog passes true or false, a call
\* without argument is open = "undefined"
ToggleCloudflareDialog(open) ==
    /\ store' = setState(store,
          [openCloudflareDialog |->
              IF open # "undefined" THEN open = "true"
              ELSE ~store.openCloudflareDialog,
           editingCloudflareConfig |->
              IF open # "false" THEN store.cloudflareConfig
              ELSE store.editingCloudflareConfig])
    /\ UNCHANGED <<localStorage, toasted, supabaseCall, cloudflareCall>>
    /\ UNCHANGED <<fileVars, r2, source, calls, faults, tableVars, pureVars,
                   modeVars>>

ResetCloudflareConfig ==
    /\ localStorage' = [localStorage EXCEPT !.cloudflare_config = NoItem]
    /\ store' = setState(store,
          [cloudflareConfig |-> DEFAULT_CLOUDFLARE_CONFIG,
           cloudflareConnected |-> FALSE])
    /\ UNCHANGED <<toasted, supabaseCall, cloudflareCall>>
    /\ UNCHANGED <<fileVars, r2, source, calls, faults, tableVars, pureVars,
                   modeVars>>

\* connectToCloudflare up to its await: state is what get() returned; the
\* schema is checked on state.editingCloudflareConfig, the editing values
\* are applied to the store, and connectToR2 is called with the fields of
\* state.cloudflareConfig.  One call is followed at a time.
ConnectToCloudflare ==
    /\ cloudflareCall.pc # "connectToR2"
    /\ calls < MaxCalls
    /\ calls' = calls + 1
    /\ LET state == store
           issues == cloudflareIssues(state.editingCloudflareConfig)
       IN  IF issues # <<>>
           THEN /\ toasted' = toastError(Head(issues))
                /\ store' = store
                /\ cloudflareCall' =
                     [pc |-> "done", state |-> state, tested |-> NoItem,
                      saved |-> NoItem, outcome |-> "invalid",
                      after |-> store]
           ELSE /\ toasted' = toasted
                /\ store' = applyEditingCloudflareConfig(store)
                /\ cloudflareCall' =
                     [pc |-> "connectToR2", state |-> state,
                      tested |-> credentials(state.cloudflareConfig),
                      saved |-> NoItem, outcome |-> "none",
                      after |-> store]
    /\ UNCHANGED <<localStorage, supabaseCall>>
    /\ UNCHANGED <<fileVars, r2, source, faults, tableVars, pureVars,
                   modeVars>>

\* the await of connectToR2 returns its result, and the rest of
\* connectToCloudflare runs
ConnectToR2Response ==
    /\ cloudflareCall.pc = "connectToR2"
    /\ LET state == cloudflareCall.state
           result == connectToR2(cloudflareCall.tested.accountId,
                                 cloudflareCall.tested.accessKeyId,
                                 cloudflareCall.tested.secretAccessKey,
                                 cloudflareCall.tested.bucketName)
       IN  IF ~result.success
           THEN /\ toasted' = toastError(result.error)
                /\ store' = setState(store, [cloudflareConnected |-> FALSE])
                /\ localStorage' = localStorage
                /\ cloudflareCall' =
                     [cloudflareCall EXCEPT !.pc = "done",
                                            !.outcome = "refused",
                                            !.after = store']
           ELSE /\ localStorage' =
                     [localStorage EXCEPT
                         !.cloudflare_config = state.cloudflareConfig]
                /\ toasted' =
                     toastSuccess("Connected to Cloudflare R2 bucket: ",
                                  state.cloudflareConfig.bucketName)
                /\ store' = setState(store,
                     [cloudflareConnected |-> TRUE,
                      openCloudflareDialog |-> FALSE])
                /\ cloudflareCall' =
                     [cloudflareCall EXCEPT
                         !.pc = "done", !.outcome = "connected",
                         !.saved = state.cloudflareConfig,
                         !.after = store']
    /\ UNCHANGED supabaseCall
    /\ UNCHANGED <<fileVars, r2, source, calls, faults, tableVars, pureVars,
                   modeVars>>

\* the call of the server action itself is rejected (the request did not
\* reach the server): the inner catch
ConnectToR2Rejected ==
    /\ cloudflareCall.pc = "connectToR2"
    /\ faults < MaxFaults
    /\ faults' = faults + 1
    /\ toasted' = toastError("Failed to fetch")
    /\ store' = setState(store, [cloudflareConnected |-> FALSE])
    /\ cloudflareCall' = [cloudflareCall EXCEPT !.pc = "done",
                                                !.outcome = "threw",
                                                !.after = store']
    /\ UNCHANGED <<localStorage, supabaseCall>>
    /\ UNCHANGED <<fileVars, r2, source, calls, tableVars, pureVars,
                   modeVars>>

CloudflareInit ==
    /\ NoStore
    /\ EngineIdle
    /\ source = {}
    /\ NoTable
    /\ NoCall
    /\ NoFileMode

CloudflareNext ==
    \/ \E config \in CloudflareEdits : SetEditingCloudflareConfig(config)
    \/ \E open \in {"true", "false", "undefined"} :
          ToggleCloudflareDialog(open)
    \/ ResetCloudflareConfig
    \/ ConnectToCloudflare
    \/ ConnectToR2Response
    \/ ConnectToR2Rejected

CloudflareSpec == CloudflareInit /\ [][CloudflareNext]_vars

\* ------------------------------------------------------------------------
\* The connection store, Supabase half
\* ------------------------------------------------------------------------

\* what the dialog's inputs send to setEditingSupabaseConfig, one field per
\* change (SupabaseConnection.tsx lines 89-160)
SupabaseEdits ==
    {[supabaseUrl |-> "https://p.supabase.co"],
     [supabaseKey |-> "service-key"],
     [bucketName |-> "images"], [bucketName |-> "posts"],
     [bucketName |-> ""]}

\* the project behind the URL: its service key, its storage buckets and
\* its tables
supabaseAccepts(supabaseUrl, supabaseKey) ==
    supabaseUrl = "https://p.supabase.co" /\ supabaseKey = "service-key"

ProjectBuckets == {"images", "avatars"}

ProjectTables == {"posts"}

\* server action connectToSupabase(supabaseUrl, supabaseKey)
connectToSupabase(supabaseUrl, supabaseKey) ==
    IF supabaseUrl = "" \/ supabaseKey = ""
    THEN [success |-> FALSE, error |-> <<"Missing required credentials">>]
    ELSE IF ~supabaseAccepts(supabaseUrl, supabaseKey)
    THEN [success |-> FALSE,
          error |-> <<"Could not connect to Supabase. Please check your credentials.">>]
    ELSE [success |-> TRUE, error |-> <<>>]

\* server action connectToSupabaseStorage
connectToSupabaseStorage(supabaseUrl, supabaseKey, bucket) ==
    LET baseConnection == connectToSupabase(supabaseUrl, supabaseKey)
    IN  IF ~baseConnection.success THEN baseConnection
        ELSE IF bucket = ""
        THEN [success |-> FALSE, error |-> <<"Bucket name is required">>]
        ELSE IF bucket \notin ProjectBuckets
        THEN [success |-> FALSE,
              error |-> <<"Bucket not found or not accessible. Please check your credentials and bucket name.">>]
        ELSE [success |-> TRUE, error |-> <<>>]

\* server action connectToSupabaseTable; a missing relation is reported by
\* the database with code 42P01
connectToSupabaseTable(supabaseUrl, supabaseKey, tableName) ==
    LET baseConnection == connectToSupabase(supabaseUrl, supabaseKey)
    IN  IF ~baseConnection.success THEN baseConnection
        ELSE IF tableName = ""
        THEN [success |-> FALSE, error |-> <<"Table name is required">>]
        ELSE IF tableName \notin ProjectTables
        THEN [success |-> FALSE,
              error |-> <<"Cannot access table \"", tableName,
                          "\". Either the table doesn't exist or you don't have sufficient permissions.">>]
        ELSE [success |-> TRUE, error |-> <<>>]

setEditingSupabaseConfig(s, config) ==
    setState(s, [editingSupabaseConfig |->
                    merge(s.editingSupabaseConfig, config)])

applyEditingSupabaseConfig(s) ==
    setState(s, [supabaseConfig |->
                    merge(s.supabaseConfig, s.editingSupabaseConfig)])

SetEditingSupabaseConfig(config) ==
    /\ store' = setEditingSupabaseConfig(store, config)
    /\ UNCHANGED <<localStorage, toasted, supabaseCall, cloudflareCall>>
    /\ UNCHANGED <<fileVars, r2, source, calls, faults, tableVars, pureVars,
                   modeVars>>

SetTempMigrationMode(mode) ==
    /\ store' = setState(store, [tempMigrationMode |-> mode])
    /\ UNCHANGED <<localStorage, toasted, supabaseCall, cloudflareCall>>
    /\ UNCHANGED <<fileVars, r2, source, calls, faults, tableVars, pureVars,
                   modeVars>>

ToggleSupabaseDialog(open) ==
    /\ store' = setState(store,
          [openSupabaseDialog |->
              IF open # "undefined" THEN open = "true"
              ELSE ~store.openSupabaseDialog,
           editingSupabaseConfig |->
              IF open # "false" THEN store.supabaseConfig
              ELSE store.editingSupabaseConfig])
    /\ UNCHANGED <<localStorage, toasted, supabaseCall, cloudflareCall>>
    /\ UNCHANGED <<fileVars, r2, source, calls, faults, tableVars, pureVars,
                   modeVars>>

ResetSupabaseConfig ==
    /\ localStorage' = [localStorage EXCEPT !.supabase_config = NoItem]
    /\ store' = setState(store,
          [supabaseConfig |-> DEFAULT_SUPABASE_CONFIG,
           supabaseConnected |-> FALSE,
           availableBuckets |-> {}])
    /\ UNCHANGED <<toasted, supabaseCall, cloudflareCall>>
    /\ UNCHANGED <<fileVars, r2, source, calls, faults, tableVars, pureVars,
                   modeVars>>

\* the arguments connectToSupabase (the store's) passes to the validation
\* action, and the action it chooses
submittedToSupabase(state) ==
    [supabaseUrl |-> state.editingSupabaseConfig.supabaseUrl,
     supabaseKey |-> state.editingSupabaseConfig.supabaseKey,
     bucketName |-> state.editingSupabaseConfig.bucketName,
     mode |-> state.tempMigrationMode]

\* connectToSupabase up to its first await: state is what get() returned.
\* One call is followed at a time.
ConnectToSupabase ==
    /\ supabaseCall.pc \in {"idle", "done"}
    /\ calls < MaxCalls
    /\ calls' = calls + 1
    /\ LET state == store
           editing == state.editingSupabaseConfig
           missing ==
              IF editing.supabaseUrl = "" \/ editing.supabaseKey = ""
              THEN <<"Supabase URL and API Key are required">>
              ELSE IF editing.bucketName = ""
              THEN <<"Bucket name is required">>
              ELSE <<>>
       IN  IF missing # <<>>
           THEN /\ toasted' = toastError(Head(missing))
                /\ store' = store
                /\ localStorage' = localStorage
                /\ supabaseCall' =
                     [pc |-> "done", state |-> state, tested |-> NoItem,
                      saved |-> NoItem, outcome |-> "missing",
                      after |-> store]
           ELSE /\ toasted' = toasted
                /\ localStorage' =
                     [localStorage EXCEPT
                         !.migration_mode = state.tempMigrationMode]
                /\ store' = applyEditingSupabaseConfig(
                     setState(store,
                        [migrationMode |-> state.tempMigrationMode]))
                /\ supabaseCall' =
                     [pc |-> "validate", state |-> state,
                      tested |-> submittedToSupabase(state),
                      saved |-> NoItem, outcome |-> "none",
                      after |-> store]
    /\ UNCHANGED cloudflareCall
    /\ UNCHANGED <<fileVars, r2, source, faults, tableVars, pureVars,
                   modeVars>>

\* lines 286-299: the end of a successful call, on the store s
connected(s, state) ==
    /\ localStorage' =
          [localStorage EXCEPT !.supabase_config = state.supabaseConfig]
    /\ toasted' =
          toastSuccess(IF state.tempMigrationMode = "table"
                       THEN "Connected to Supabase table: "
                       ELSE "Connected to Supabase bucket: ",
                       state.supabaseConfig.bucketName)
    /\ store' = setState(s, [supabaseConnected |-> TRUE,
                             openSupabaseDialog |-> FALSE])
    /\ supabaseCall' =
          [supabaseCall EXCEPT !.pc = "done", !.outcome = "connected",
                               !.saved = state.supabaseConfig,
                               !.after = store']

\* the validation action returns its result
ValidationResponse ==
    /\ supabaseCall.pc = "validate"
    /\ LET state == supabaseCall.state
           tested == supabaseCall.tested
           result ==
              IF state.tempMigrationMode = "table"
              THEN connectToSupabaseTable(tested.supabaseUrl,
                      tested.supabaseKey, tested.bucketName)
              ELSE connectToSupabaseStorage(tested.supabaseUrl,
                      tested.supabaseKey, tested.bucketName)
       IN  IF ~result.success
           THEN /\ toasted' = [kind |-> "error", message |-> result.error]
                /\ store' = setState(store, [supabaseConnected |-> FALSE])
                /\ localStorage' = localStorage
                /\ supabaseCall' =
                     [supabaseCall EXCEPT !.pc = "done",
                                          !.outcome = "refused",
                                          !.after = store']
           ELSE IF state.tempMigrationMode = "file"
           THEN /\ supabaseCall' =
                     [supabaseCall EXCEPT !.pc = "listBuckets"]
                /\ UNCHANGED <<store, localStorage, toasted>>
           ELSE connected(setState(store, [availableBuckets |-> {}]),
                          state)
    /\ UNCHANGED cloudflareCall
    /\ UNCHANGED <<fileVars, r2, source, calls, faults, tableVars, pureVars,
                   modeVars>>

\* the call of the validation action is rejected: the inner catch
ValidationRejected ==
    /\ supabaseCall.pc = "validate"
    /\ faults < MaxFaults
    /\ faults' = faults + 1
    /\ toasted' = toastError("Failed to fetch")
    /\ store' = setState(store, [supabaseConnected |-> FALSE])
    /\ supabaseCall' = [supabaseCall EXCEPT !.pc = "done",
                                            !.outcome = "threw",
                                            !.after = store']
    /\ UNCHANGED <<localStorage, cloudflareCall>>
    /\ UNCHANGED <<fileVars, r2, source, calls, tableVars, pureVars,
                   modeVars>>

\* supabase.storage.listBuckets() returns the buckets (ok) or an error, and
\* the rest of connectToSupabase runs
ListBucketsResponse(ok) ==
    /\ supabaseCall.pc = "listBuckets"
    /\ ok \/ faults < MaxFaults
    /\ faults' = IF ok THEN faults ELSE faults + 1
    /\ connected(IF ok
                 THEN setState(store, [availableBuckets |-> ProjectBuckets])
                 ELSE store,
                 supabaseCall.state)
    /\ UNCHANGED cloudflareCall
    /\ UNCHANGED <<fileVars, r2, source, calls, tableVars, pureVars,
                   modeVars>>

SupabaseInit == CloudflareInit

SupabaseNext ==
    \/ \E config \in SupabaseEdits : SetEditingSupabaseConfig(config)
    \/ \E mode \in {"file", "table"} : SetTempMigrationMode(mode)
    \/ \E open \in {"true", "false", "undefined"} :
          ToggleSupabaseDialog(open)
    \/ ResetSupabaseConfig
    \/ ConnectToSupabase
    \/ ValidationResponse
    \/ ValidationRejected
    \/ \E ok \in BOOLEAN : ListBucketsResponse(ok)

SupabaseSpec == SupabaseInit /\ [][SupabaseNext]_vars


\* ------------------------------------------------------------------------
PathAlphabet == {"/", "a", "."}

\* every string over the alphabet of at most n characters
Strings(n) == UNION {[1..m -> PathAlphabet] : m \in 0..n}

\* paths around each pattern of the skip policy
MarkedPaths ==
    {pre \o skipPatterns[n] \o post :
        n \in 1..Len(skipPatterns),
        pre \in {<<>>, <<"a">>, <<"a","/">>},
        post \in {<<>>, <<"b",".","j","s">>}}

UnmarkedPaths ==
    { <<"i","m","a","g","e","s","/","p","h","o","t","o",".","j","p","g">>,
      <<"t","e","s","t",".","j","p","g">>,
      <<"/","t","e","s","t">>,
      <<"m","o","c","k","/","s","a","m","p","l","e","/","x">>,
      <<"T","e","s","t","-","1">> }

\* keys with each extension of the tables, in lower and in mixed case,
\* with an unknown extension, with none, and with the name of an inherited
\* property
ExtensionPaths ==
    {<<"x","/","y",".">> \o e[1] : e \in serviceContentTypes \cup inheritedProperties}
    \cup { <<"x","/","y",".","P","N","G">>,
           <<"a",".","J","p","e","G">>,
           <<"x","/","y",".","u","n","k","n","o","w","n","e","x","t">>,
           <<"a",".","t","a","r",".","g","z">>,
           <<"a",".","b","/","c">>,
           <<"R","E","A","D","M","E">> }

\* the three implementations, by the name recorded in fn
GetContentTypes ==
    {"POST.getContentType", "migrateFileToR2.getContentType",
     "MigrationService.getContentType"}

PathInputs ==
    Strings(MaxLen) \cup MarkedPaths \cup UnmarkedPaths \cup ExtensionPaths

PathInit ==
    /\ fn = "none"
    /\ arg \in PathInputs
    /\ ret = <<>>
    /\ EngineIdle
    /\ source = {}
    /\ NoTable
    /\ NoFileMode
    /\ NoStore

CallNormalizePath ==
    /\ fn = "none"
    /\ fn' = "normalizePath"
    /\ ret' = normalizePath(arg)
    /\ UNCHANGED <<arg, fileVars, r2, source, calls, faults, tableVars,
                 modeVars, connVars>>

CallShouldSkipPath ==
    /\ fn = "none"
    /\ fn' = "shouldSkipPath"
    /\ ret' = shouldSkipPath(arg)
    /\ UNCHANGED <<arg, fileVars, r2, source, calls, faults, tableVars,
                 modeVars, connVars>>

CallGetContentType(which) ==
    /\ fn = "none"
    /\ fn' = which
    /\ ret' = CASE which = "POST.getContentType" -> getContentType(arg)
                [] which = "migrateFileToR2.getContentType" ->
                       actionGetContentType(arg)
                [] which = "MigrationService.getContentType" ->
                       serviceGetContentType(arg)
    /\ UNCHANGED <<arg, fileVars, r2, source, calls, faults, tableVars,
                 modeVars, connVars>>

PathNext ==
    \/ CallNormalizePath
    \/ CallShouldSkipPath
    \/ \E which \in GetContentTypes : CallGetContentType(which)

PathSpec == PathInit /\ [][PathNext]_vars

\* ------------------------------------------------------------------------
\* Properties
\* ------------------------------------------------------------------------
\* items whose existence check or transfer is in flight
InFlight == {n \in DOMAIN item : item[n].st \in {"head", "fetch"}}

Resolved == {n \in DOMAIN item : item[n].st = "done"}

NonEmptyMessage(m) == \E k \in 1..Len(m) : m[k] # ""

NotInitializedMessage ==
    "Cloudflare R2 client is not initialized. Please connect to Cloudflare R2 first."

\* C1: whenever inProgress is false (before the first run and once a run
\* has ended), completed + failed equals total.
C1_AllCountedWhenRunEnds ==
    ~progress.inProgress =>
        progress.completed + progress.failed = progress.total

\* a run has ended in which one item was skipped by policy, one was found
\* at the destination, one was uploaded and one failed
C1_Witness ==
    /\ run = "returned"
    /\ \E n \in DOMAIN item : shouldSkipPath(files[n]) /\ item[n].incC = 1
    /\ \E n \in DOMAIN item : item[n].probe = "ok"
    /\ \E n \in DOMAIN item : item[n].srv = "ok"
    /\ \E n \in DOMAIN item : item[n].incF = 1

\* C2: in every reachable state completed + failed <= total, every item has
\* made at most one increment, and the two counters are exactly the numbers
\* of items that made their increment.
C2_CountsBounded ==
    /\ progress.completed + progress.failed <= progress.total
    /\ \A n \in DOMAIN item : item[n].incC + item[n].incF <= 1
    /\ progress.completed = Cardinality({n \in DOMAIN item : item[n].incC >= 1})
    /\ progress.failed = Cardinality({n \in DOMAIN item : item[n].incF >= 1})

\* a second run is under way, with items counted as completed and as failed
\* and one still in flight
C2_Witness ==
    /\ run = "pending"
    /\ submitted > Len(files)
    /\ progress.completed >= 1
    /\ progress.failed >= 1
    /\ InFlight # {}

\* C3: a migrateFiles call made while inProgress is true throws "Migration
\* already in progress" and changes neither the progress record nor the
\* running batch nor the destination.
C3_SecondCallRejected ==
    [][(progress.inProgress /\ calls' = calls + 1) =>
          /\ thrown' = "Migration already in progress"
          /\ progress' = progress
          /\ item' = item
          /\ files' = files
          /\ i' = i
          /\ run' = run
          /\ r2' = r2]_vars

\* a call has been rejected while items of the running batch are in flight
C3_Witness ==
    /\ thrown = "Migration already in progress"
    /\ progress.inProgress
    /\ InFlight # {}
    /\ Resolved # {}

\* C4: at most 5 items are in flight at any moment.
C4_AtMostFiveInFlight == Cardinality(InFlight) <= 5

\* more than 5 files are selected and 5 of them are in flight
C4_Witness == Len(files) > 5 /\ Cardinality(InFlight) = 5

\* C5: an item whose existence check returned true is never uploaded and has
\* added exactly one to completed.
C5_PresentIsNotTransferred ==
    \A n \in DOMAIN item :
        item[n].probe = "ok" =>
            /\ item[n].uploads = 0
            /\ item[n].srv = "none"
            /\ item[n].incC = 1
            /\ item[n].incF = 0

\* a run has ended in which the existence check of an item returned true
C5_Witness ==
    /\ run = "returned"
    /\ \E n \in DOMAIN item : item[n].probe = "ok"

\* C6: an item whose upload failed at the destination write has added
\* exactly one to failed and nothing to completed, and errors holds a
\* non-empty message under its path.
C6_UploadFailureCounted ==
    \A n \in DOMAIN item :
        item[n].srv = "puterror" =>
            /\ item[n].incF = 1
            /\ item[n].incC = 0
            /\ files[n] \in DOMAIN progress.errors
            /\ NonEmptyMessage(progress.errors[files[n]])
            /\ progress.failed = Cardinality({m \in DOMAIN item : item[m].incF = 1})

\* the PutObject for c.pdf has failed and the run has ended
C6_Witness ==
    /\ run = "returned"
    /\ \E n \in DOMAIN item :
         /\ files[n] = <<"c", ".", "p", "d", "f">>
         /\ item[n].srv = "puterror"
    /\ progress.failed = 1

\* C7: when an item has failed, the migrateFiles call is still pending or
\* has returned (it has not thrown), and when it returns every selected item
\* has been processed and counted once.
C7_ItemFailureStaysInBatch ==
    (\E n \in DOMAIN item : item[n].incF >= 1) =>
        /\ run \in {"pending", "returned"}
        /\ thrown \in {"none", "Migration already in progress"}
        /\ run = "returned" =>
             \A n \in DOMAIN item :
                 item[n].st = "done" /\ item[n].incC + item[n].incF = 1

\* an item of the first batch failed, and an item of the second batch was
\* uploaded afterwards
C7_Witness ==
    /\ run = "returned"
    /\ \E n \in DOMAIN item : n <= batchSize /\ item[n].incF = 1
    /\ \E n \in DOMAIN item : n > batchSize /\ item[n].srv = "ok"

\* C8 (as claimed): an item whose HEAD probe failed with an error other than
\* "not found" is not uploaded as if it were absent.
C8_ProbeFailureSurfaced ==
    \A n \in DOMAIN item :
        item[n].probe \notin {"none", "ok", "NotFound"} =>
            /\ item[n].uploads = 0
            /\ item[n].st = "done" => item[n].incF = 1

ExpectedContentType(key) ==
    CASE key = <<"a", ".", "j", "p", "g">> -> "image/jpeg"
      [] key = <<"b", ".", "p", "n", "g">> -> "image/png"
      [] key = <<"d", "/", "c", ".", "P", "N", "G">> -> "image/png"
      [] key = <<"c", ".", "p", "d", "f">> -> "application/pdf"
      [] key = <<"f", ".", "g", "i", "f">> -> "image/gif"
      [] key = <<"t", "e", "s", "t", "-", "g", ".", "j", "s">> -> "application/javascript"
      [] OTHER -> "application/octet-stream"

\* every item of the run: not skipped by policy, not at the destination when
\* the run was accepted, and no download, upload or request of it failed
C10_CleanRun ==
    /\ run = "returned"
    /\ \A n \in DOMAIN item :
         /\ ~shouldSkipPath(files[n])
         /\ normalizePath(files[n]) \notin r2AtDispatch
         /\ item[n].srv \in {"none", "ok"}

\* C10: after a clean run total is the number of selected items, completed
\* equals total, failed is 0, errors is empty, and the destination holds
\* every normalized key with the content type of the extension table.
C10_CleanRunMigratesAll ==
    C10_CleanRun =>
        /\ progress.total = Len(files)
        /\ progress.completed = progress.total
        /\ progress.failed = 0
        /\ progress.errors = NoErrors
        /\ \A n \in DOMAIN item :
             /\ normalizePath(files[n]) \in DOMAIN r2
             /\ r2[normalizePath(files[n])] =
                   ExpectedContentType(normalizePath(files[n]))

\* a clean run over the first six files, two batches, has ended
C10_Witness ==
    /\ C10_CleanRun
    /\ Len(files) = 6
    /\ <<"d", "/", "c", ".", "P", "N", "G">> \in DOMAIN r2

\* ------------------------------------------------------------------------
\* Properties of the transfer executor and of table mode
\* ------------------------------------------------------------------------
\* the message names the download as what failed
DownloadErrorMessage(m) ==
    Len(m) > 0 /\ m[1] \in {"Error downloading file: ", "File could not be downloaded"}

C12_SourceUntouched == [][source' = source]_vars

\* a table-mode run with a transferred row and a failed row has ended, and
\* listFiles has returned an inventory
C12_Witness ==
    /\ source = TableKeys
    /\ migrationProgress # nullProgress
    /\ ~migrationProgress.inProgress
    /\ migrationProgress.completed >= 1
    /\ migrationProgress.failed >= 1
    /\ listing.result = "returned"
    /\ listing.files # {}

\* ------------------------------------------------------------------------
\* Table mode: the rows of a run
\* ------------------------------------------------------------------------
\* row k of the run's selection has been through the loop body, or is at one
\* of its awaits
reachedRow(k) == tpc = "idle" \/ k <= rowIdx

\* the loop is past row k of the run's selection
pastRow(k) == tpc = "idle" \/ k < rowIdx

transferFailures == {"dlerror", "nodata", "puterror", "rejected", "invalid"}

\* C13: the table is written only by the update of the row whose transfer
\* has just been reported successful, and that write changes nothing but the
\* designated column of that row, which becomes the returned URL; so a row
\* whose URL was invalid, whose key was empty or whose transfer failed keeps
\* its column value, and no update is ever sent for it.
C13_UpdateOnlyAfterTransfer ==
    [][/\ table' # table =>
            /\ tpc = "update"
            /\ LET id == selectedRows[rowIdx].id
               IN  /\ rowLog[id].srv = "ok"
                   /\ rowLog[id].requests = 1
                   /\ \A r \in DOMAIN table : r # id => table'[r] = table[r]
                   /\ DOMAIN table' = DOMAIN table
                   /\ table'[id].name = table[id].name
                   /\ table'[id][selectedImageColumn] = string(rowLog[id].url)
       /\ \A id \in DOMAIN rowLog' :
            rowLog'[id].updates > 0 =>
                /\ rowLog'[id].srv = "ok"
                /\ rowLog'[id].updates = 1]_vars

\* the run has ended with the first row rewritten to its new URL, while a
\* row with no URL, a row with an empty key and a row whose transfer failed
\* have the values they started with
C13_Witness ==
    /\ tpc = "idle"
    /\ migrationProgress # nullProgress
    /\ Len(selectedRows) = 4
    /\ table[1].image_url = string(rowLog[1].url)
    /\ table[1].image_url # AllValues[1]
    /\ rowLog[2].incF = 1 /\ rowLog[2].requests = 0
    /\ rowLog[3].incF = 1 /\ rowLog[3].key = <<>> /\ rowLog[3].requests = 0
    /\ rowLog[4].incF = 1 /\ rowLog[4].srv \in transferFailures
    /\ \A id \in 2..4 : table[id].image_url = AllValues[id]

C15_UpdateFailureDistinguishable ==
    \A a, b \in DOMAIN rowLog :
        (/\ rowLog[a].upd = "error"
         /\ rowLog[b].srv \in transferFailures
         /\ a \in DOMAIN migrationProgress.errors
         /\ b \in DOMAIN migrationProgress.errors) =>
            migrationProgress.errors[a] # migrationProgress.errors[b]

\* missing, not a string, empty or whitespace-only
invalidImageUrl(value) ==
    \/ value.type # "string"
    \/ \A k \in 1..Len(value.s) : value.s[k] \in WhiteSpace

\* C16: a selected row whose column value is missing, not a string, empty
\* or whitespace-only gets no transfer request and no update, and once the
\* loop is past it the row is counted failed with a message that names the
\* column.
C16_InvalidUrlFailsRow ==
    \A k \in 1..Len(selectedRows) :
        LET row == selectedRows[k]
        IN  (migrationProgress # nullProgress
             /\ invalidImageUrl(row[selectedImageColumn])) =>
                /\ rowLog[row.id].requests = 0
                /\ rowLog[row.id].updates = 0
                /\ rowLog[row.id].incC = 0
                /\ row.id \notin migratedRows \ closureMigratedRows
                /\ pastRow(k) =>
                     /\ rowLog[row.id].incF = 1
                     /\ row.id \in DOMAIN migrationProgress.errors
                     /\ Len(migrationProgress.errors[row.id]) = 3
                     /\ migrationProgress.errors[row.id][2] = selectedImageColumn

\* the run has ended; a whitespace-only value and a number were failed
\* without a request, and a row of the same run was transferred
C16_Witness ==
    /\ tpc = "idle"
    /\ migrationProgress # nullProgress
    /\ \E k, l, m \in 1..Len(selectedRows) :
         /\ selectedRows[k].image_url = string(<<" ", " ">>)
         /\ selectedRows[l].image_url.type = "number"
         /\ rowLog[selectedRows[k].id].incF = 1
         /\ rowLog[selectedRows[l].id].incF = 1
         /\ migrationProgress.errors[selectedRows[k].id] = NoValidUrlMessage
         /\ rowLog[selectedRows[m].id].requests = 1
         /\ rowLog[selectedRows[m].id].incC = 1

\* the key the extraction is said to derive: the input itself when it does
\* not parse as a URL; otherwise the '/'-join of the path segments after the
\* first one equal to the bucket name, or the last segment when no segment
\* equals it
describedKey(imageUrl, bucket) ==
    LET url == URL(imageUrl)
    IN  IF ~url.ok THEN imageUrl
        ELSE LET pathParts == split(url.pathname, "/")
                 hits == {n \in 1..Len(pathParts) : pathParts[n] = bucket}
             IN  IF hits # {}
                 THEN LET first == CHOOSE n \in hits : \A m \in hits : n <= m
                      IN  join(SubSeq(pathParts, first + 1, Len(pathParts)), "/")
                 ELSE pathParts[Len(pathParts)]

\* C17: the key derived for a row with a valid URL is the described one:
\* the segments after the bucket name when a segment equals the bucket
\* name, the last segment when none does, the raw input when the value is
\* not a URL.
C17_KeyIsDescribedKey ==
    \A k \in 1..Len(selectedRows) :
        LET row == selectedRows[k]
        IN  (/\ migrationProgress # nullProgress
             /\ reachedRow(k)
             /\ ~invalidImageUrl(row[selectedImageColumn])) =>
                rowLog[row.id].key =
                    describedKey(row[selectedImageColumn].s, bucketName)

\* C18: a row with a valid URL whose derived key is empty gets no transfer
\* request and no update and is counted failed with an entry in errors; the
\* loop goes on after it, so that a run that has ended has counted every
\* selected row exactly once.
C18_EmptyKeyFailsRow ==
    /\ \A k \in 1..Len(selectedRows) :
         LET row == selectedRows[k]
         IN  (/\ migrationProgress # nullProgress
              /\ pastRow(k)
              /\ ~invalidImageUrl(row[selectedImageColumn])
              /\ rowLog[row.id].key = <<>>) =>
                 /\ rowLog[row.id].requests = 0
                 /\ rowLog[row.id].updates = 0
                 /\ rowLog[row.id].incF = 1
                 /\ rowLog[row.id].incC = 0
                 /\ row.id \in DOMAIN migrationProgress.errors
                 /\ migrationProgress.errors[row.id] = NoFilePathMessage
    /\ (migrationProgress # nullProgress /\ tpc = "idle") =>
         /\ ~migrationProgress.inProgress
         /\ \A k \in 1..Len(selectedRows) :
              rowLog[selectedRows[k].id].incC + rowLog[selectedRows[k].id].incF = 1

\* a URL whose path ends right after the bucket name was failed with an
\* empty key, and the row after it in the selection was then transferred
C18_Witness ==
    /\ tpc = "idle"
    /\ migrationProgress # nullProgress
    /\ \E k \in 1..(Len(selectedRows) - 1) :
         /\ selectedRows[k].image_url = AllValues[3]
         /\ rowLog[selectedRows[k].id].key = <<>>
         /\ rowLog[selectedRows[k].id].incF = 1
         /\ migrationProgress.errors[selectedRows[k].id] = NoFilePathMessage
         /\ rowLog[selectedRows[k + 1].id].requests = 1
         /\ rowLog[selectedRows[k + 1].id].incC = 1

\* ------------------------------------------------------------------------
\* Path functions
\* ------------------------------------------------------------------------
\* C19: what normalizePath returns is a fixed point of normalizePath, holds
\* no two adjacent '/' and does not start with '/'; the function returns
\* for every input.
C19_NormalizePathIdempotent ==
    fn = "normalizePath" =>
        /\ normalizePath(ret) = ret
        /\ \A k \in 1..(Len(ret) - 1) : ~(ret[k] = "/" /\ ret[k + 1] = "/")
        /\ ~startsWith(ret, "/")
        /\ Len(ret) <= Len(arg)

\* a path with a leading '/' and a run of '/' has been normalised
C19_Witness ==
    /\ fn = "normalizePath"
    /\ arg = <<"/", "a", "/", "/">>
    /\ ret = <<"a", "/">>

\* the markers the skip filter is said to recognise
describedMarkers ==
    { <<"/","t","e","s","t","/">>,
      <<"/","s","a","m","p","l","e","/">>,
      <<"/","e","x","a","m","p","l","e","s","/">>,
      <<"t","e","s","t","-">>,
      <<"m","o","c","k","-">>,
      <<".","e","m","p","t","y","F","o","l","d","e","r","P","l","a","c","e","h","o","l","d","e","r">> }

\* C20: shouldSkipPath returns true for a path that contains one of the
\* markers /test/, /sample/, /examples/, test-, mock- and
\* .emptyFolderPlaceholder, and false for images/photo.jpg.
C20_SkipMarkers ==
    fn = "shouldSkipPath" =>
        /\ (\E m \in describedMarkers : includes(arg, m)) => ret = TRUE
        /\ arg = <<"i","m","a","g","e","s","/","p","h","o","t","o",".","j","p","g">>
             => ret = FALSE

\* a path with the marker mock- in the middle has been answered
C20_Witness ==
    /\ fn = "shouldSkipPath"
    /\ arg = <<"a", "/", "m", "o", "c", "k", "-", "b", ".", "j", "s">>
    /\ ret = TRUE

\* the type the extension table gives a key: the entry of the extension,
\* compared without regard to case, application/octet-stream when the
\* extension is not in the table
describedContentType(key) ==
    LET extension == toLowerCase(lastDotPart(key))
    IN  IF \E e \in contentTypes : e[1] = extension
        THEN (CHOOSE e \in contentTypes : e[1] = extension)[2]
        ELSE "application/octet-stream"

\* C21: each of the three getContentType implementations returns the type
\* of the extension table for a key whose extension is in the table, in any
\* case, and application/octet-stream for every other key.
C21_ContentTypeIsTableLookup ==
    fn \in GetContentTypes => ret = describedContentType(arg)

\* https://{customDomain}/{key} when a custom domain is configured, the
\* default virtual-hosted URL otherwise
describedUrl(domain, key) ==
    IF domain # ""
    THEN <<"https://", domain, "/">> \o key
    ELSE <<"https://{bucket}.{account}.r2.cloudflarestorage.com/">> \o key

\* C22: the URL a successful transfer returns, from the route and from the
\* server action, is the described URL of the normalized key, the
\* destination holds an object under that key, and a row whose update
\* succeeded holds this URL.
C22_ReturnedUrl ==
    /\ \A id \in DOMAIN rowLog :
         rowLog[id].srv = "ok" =>
             LET key == normalizePath(rowLog[id].key)
             IN  /\ rowLog[id].url = describedUrl(customDomain, key)
                 /\ key \in DOMAIN r2
                 /\ \E k \in 1..Len(putLog) : putLog[k] = key
                 /\ rowLog[id].upd = "ok" =>
                      table[id][selectedImageColumn] =
                          string(describedUrl(customDomain, key))
    /\ actionResult.outcome = "ok" =>
         LET key == normalizePath(actionResult.filePath)
         IN  /\ actionResult.result.success
             /\ actionResult.result.url = describedUrl(customDomain, key)
             /\ key \in DOMAIN r2

\* with a custom domain configured, a row has been rewritten to the URL of
\* its object and the server action has returned the URL of a key it was
\* given with a leading '//'
C22_Witness ==
    /\ customDomain # ""
    /\ \E id \in DOMAIN rowLog :
         /\ rowLog[id].upd = "ok"
         /\ table[id][selectedImageColumn].s[2] = customDomain
    /\ actionResult.outcome = "ok"
    /\ actionResult.filePath # normalizePath(actionResult.filePath)

\* ------------------------------------------------------------------------
\* Properties of listFiles
\* ------------------------------------------------------------------------
\* the keys of a bucket under a container
keysUnder(src, container) ==
    IF container = <<>> THEN src
    ELSE {k \in src : /\ Len(k) > Len(container) + 1
                      /\ SubSeq(k, 1, Len(container) + 1) = container \o <<"/">>}

\* the store has answered the list request of the start path with the
\* entries of the folder
answered(l) ==
    l.lenient \/ normalizePath(l.path) = containerOf(normalizePath(l.path))

\* every non-skipped leaf object reachable from the start path
describedInventory(src, path) ==
    IF shouldSkipPath(normalizePath(path)) THEN {}
    ELSE {k \in keysUnder(src, containerOf(normalizePath(path))) :
            ~shouldSkipPath(k)}

\* the containers a listing from the start path has to list: the start
\* container and every folder below it that the skip policy lets through
describedContainers(src, path, lenient) ==
    LET start == containerOf(normalizePath(path))
    IN  IF shouldSkipPath(normalizePath(path)) THEN {}
        ELSE {start} \cup
             (IF ~lenient /\ start # normalizePath(path) THEN {}
              ELSE {c \in Containers(keysUnder(src, start)) :
                      Len(c) > Len(start) /\ ~shouldSkipPath(c)})

\* C23: a listFiles call throws exactly when the list request of one of the
\* containers it has to list fails, at whatever depth, and it then gives no
\* files; when it returns, the files are every non-skipped object reachable
\* from the start path.
C23_ListingAllOrNothing ==
    listing.result # "none" =>
        LET failed == listing.failing
                        \cap describedContainers(source, listing.path,
                                                 listing.lenient) # {}
        IN  /\ (listing.result = "thrown") = failed
            /\ listing.result = "thrown" => listing.files = {}
            /\ (listing.result = "returned" /\ answered(listing)) =>
                 {normalizePath(f) : f \in listing.files}
                     = describedInventory(source, listing.path)

\* a listing from the root has thrown because the list request of a folder
\* two levels down failed, in a bucket with objects in the folders above
C23_Witness ==
    /\ listing.result = "thrown"
    /\ listing.path = <<>>
    /\ listing.failing = {<<"i", "/", "d">>}
    /\ <<"a", ".", "j", "p", "g">> \in source
    /\ <<"i", "/", "a", ".", "p", "n", "g">> \in source

\* C24: every path listFiles returns is normalized (no leading '/', no
\* '//') and is not matched by the skip policy, whatever the start path.
C24_ListedPathsNormalized ==
    listing.result = "returned" =>
        \A f \in listing.files :
            /\ normalizePath(f) = f
            /\ ~shouldSkipPath(f)

\* ------------------------------------------------------------------------
\* Properties of the batch engine, continued
\* ------------------------------------------------------------------------
\* a required field of the destination configuration is missing
NotConfigured == \E f \in CfFields : ~cloudflareConfig[f]

\* C25: with a required field of the destination configuration missing,
\* every migrateFiles call throws the "not initialized" error and changes
\* neither the progress record nor anything else of the engine or the
\* destination; no existence check and no transfer is ever issued.
C25_NotConfiguredFailsFast ==
    [][NotConfigured =>
          /\ calls' = calls + 1 =>
               /\ thrown' = NotInitializedMessage
               /\ progress' = progress
               /\ ~progress'.inProgress
               /\ run' = run
               /\ files' = files
               /\ item' = item
               /\ r2' = r2
          /\ item' = <<>>
          /\ r2' = r2]_vars

\* two calls have thrown with the secret access key missing, and the
\* progress record is the initial one
C25_Witness ==
    /\ ~cloudflareConfig["secretAccessKey"]
    /\ cloudflareConfig["accountId"]
    /\ calls = 2
    /\ thrown = NotInitializedMessage
    /\ progress = InitialProgress
    /\ item = <<>>

\* ------------------------------------------------------------------------
\* C26: every accepted migrateFiles run eventually reaches
\* inProgress = FALSE, even when a destination call (the existence probe or
\* the upload) of some item never responds
\* ------------------------------------------------------------------------
C26_StalledCallEndsRun ==
    (run = "pending") ~> (run = "returned" /\ ~progress.inProgress)

\* ------------------------------------------------------------------------
\* C27: the progress record is a function of the selection and of the
\* outcomes of the items resolved so far, whatever the order in which the
\* items of a batch completed; at the end of the run it is that function of
\* all the per-item outcomes, and no increment is lost.
\* ------------------------------------------------------------------------
\* item n ended well: skipped by policy, found at the destination or uploaded
succeeded(n) ==
    \/ shouldSkipPath(files[n])
    \/ item[n].probe = "ok"
    \/ item[n].srv = "ok"

\* the message the outcome of a failed item n stands for
outcomeMessage(n) ==
    IF item[n].srv = "timeout"
    THEN <<"Request timed out after 30 seconds for file: ">>
             \o normalizePath(files[n])
    ELSE uploadToR2Error(POST(cleanCustomDomain, normalizePath(files[n]),
                              item[n].srv))

outcomeProgress ==
    LET bad == {n \in Resolved : ~succeeded(n)}
    IN  [total |-> Len(files),
         completed |-> Cardinality({n \in Resolved : succeeded(n)}),
         failed |-> Cardinality(bad),
         inProgress |-> run = "pending",
         errors |-> [p \in {files[n] : n \in bad} |->
                       outcomeMessage(CHOOSE n \in bad : files[n] = p)]]

C27_ProgressIsFunctionOfOutcomes == progress = outcomeProgress

\* in the first batch a later item has failed and another has completed
\* while the first item is still awaiting its upload, and one is still being
\* probed
C27_Witness ==
    /\ run = "pending"
    /\ i = 0
    /\ item[1].st = "fetch"
    /\ \E n \in 2..Len(files) : item[n].incF = 1
    /\ \E n \in 2..Len(files) : item[n].srv = "ok"
    /\ \E n \in 2..Len(files) : item[n].st = "head"

\* ------------------------------------------------------------------------
\* C28: within one run the upload request of each selected item is issued at
\* most once: an item that has resolved, as failed or as completed, is not
\* touched again in that run.  The same holds for the migrateFileToR2 calls
\* of one file-mode run.
\* ------------------------------------------------------------------------
C28_TransferredAtMostOnce ==
    [][/\ \A n \in DOMAIN item' : item'[n].uploads <= 1
       /\ calls' = calls =>
            \A n \in DOMAIN item :
                /\ item'[n].uploads >= item[n].uploads
                /\ item[n].st = "done" => item'[n] = item[n]
       /\ \A h \in DOMAIN handlers' :
            \A k \in DOMAIN handlers'[h].requests :
                handlers'[h].requests[k] <= 1
       /\ \A h \in DOMAIN handlers :
            \A k \in 1..(handlers[h].pos - 1) :
                handlers'[h].requests[k] = handlers[h].requests[k]]_vars

\* a run has ended in which the first item's upload failed and a later
\* item was uploaded after that
C28_Witness ==
    /\ run = "returned"
    /\ Len(files) >= 3
    /\ item[1].srv = "puterror" /\ item[1].uploads = 1 /\ item[1].incF = 1
    /\ \E n \in 2..Len(files) : item[n].srv = "ok" /\ item[n].uploads = 1

\* ------------------------------------------------------------------------
\* C29: an accepted migrateFiles call replaces the progress record by
\* total = number of items, completed = 0, failed = 0 and no errors (the
\* items the skip policy resolves before the call first yields are already
\* counted as completed), and in every state the record holds counts and
\* error entries of items of the latest accepted run only.
\* ------------------------------------------------------------------------
\* this step is a migrateFiles call that passes both guards
accepted == calls' = calls + 1 /\ ~alreadyInProgress /\ r2Client

C29_ProgressOfLatestRunOnly ==
    [][/\ accepted =>
            /\ progress'.total = Len(files')
            /\ progress'.failed = 0
            /\ progress'.errors = NoErrors
            /\ progress'.completed =
                   Cardinality({n \in batchOf(files', 0) :
                                    shouldSkipPath(files'[n])})
       /\ progress'.total = Len(files')
       /\ progress'.completed =
              Cardinality({n \in DOMAIN item' : item'[n].incC = 1})
       /\ progress'.failed =
              Cardinality({n \in DOMAIN item' : item'[n].incF = 1})
       /\ DOMAIN progress'.errors =
              {files'[n] : n \in {m \in DOMAIN item' : item'[m].incF = 1}}]_vars

\* a second run has just been accepted; in the run before it an item was
\* uploaded and another failed
C29_Witness ==
    /\ calls = 2
    /\ run = "pending"
    /\ Len(files) >= 1
    /\ submitted > Len(files)
    /\ progress.failed = 0
    /\ progress.errors = NoErrors
    /\ \A n \in DOMAIN item : item[n].st \in {"head", "pending"}
    /\ r2AtDispatch # {}
    /\ \E n \in 1..(submitted - Len(files)) :
         /\ ~shouldSkipPath(Inventory[n])
         /\ normalizePath(Inventory[n]) \notin r2AtDispatch

\* ------------------------------------------------------------------------
\* C30: in file mode, while any item of a dispatched batch is unresolved
\* (its first item included), migrationProgress.inProgress is true and the
\* start button is disabled, so at most one startMigration run is under way.
\* ------------------------------------------------------------------------
runsUnderWay == {n \in DOMAIN handlers : handlers[n].pc = "await"}

C30_StartDisabledDuringRun ==
    runsUnderWay # {} =>
        /\ migrationProgress # nullProgress
        /\ migrationProgress.inProgress
        /\ startDisabled
        /\ Cardinality(runsUnderWay) = 1

\* ------------------------------------------------------------------------
\* C31: when connectToCloudflare ends with cloudflareConnected = TRUE, the
\* credentials tested against R2 in that call are the ones the user
\* submitted (editingCloudflareConfig at the call), and they are the ones
\* in the store's cloudflareConfig and the ones saveCloudflareConfig wrote.
\* ------------------------------------------------------------------------
submittedToCloudflare ==
    credentials(cloudflareCall.state.editingCloudflareConfig)

C31_TestedCredentialsAreSubmitted ==
    (cloudflareCall.pc = "done" /\ cloudflareCall.outcome = "connected") =>
        /\ cloudflareCall.tested = submittedToCloudflare
        /\ credentials(cloudflareCall.after.cloudflareConfig)
              = submittedToCloudflare
        /\ cloudflareCall.saved # NoItem
        /\ credentials(cloudflareCall.saved) = submittedToCloudflare

\* ------------------------------------------------------------------------
\* C36: when connectToSupabase succeeds, the configuration written by
\* saveSupabaseConfig, whose bucketName the success message names, is the
\* store's supabaseConfig after the call, which is the configuration that
\* was submitted and validated.
\* ------------------------------------------------------------------------
validatedBySupabase ==
    [supabaseUrl |-> supabaseCall.tested.supabaseUrl,
     supabaseKey |-> supabaseCall.tested.supabaseKey,
     bucketName |-> supabaseCall.tested.bucketName]

C36_SavedConfigIsValidatedConfig ==
    (supabaseCall.pc = "done" /\ supabaseCall.outcome = "connected") =>
        /\ supabaseCall.saved = supabaseCall.after.supabaseConfig
        /\ supabaseCall.saved = validatedBySupabase
        /\ toasted.kind = "success"
        /\ toasted.message[2] = supabaseCall.after.supabaseConfig.bucketName

\* ------------------------------------------------------------------------
\* C37: when connectToSupabase fails (a required field is missing, the
\* validation action returns success = false, or it throws), supabaseConfig
\* and migrationMode have the values they had before the call, and
\* supabaseConnected is false after it.
\* ------------------------------------------------------------------------
C37_FailedConnectChangesNothing ==
    (supabaseCall.pc = "done"
     /\ supabaseCall.outcome \in {"missing", "refused", "threw"}) =>
        /\ supabaseCall.after.supabaseConfig
              = supabaseCall.state.supabaseConfig
        /\ supabaseCall.after.migrationMode
              = supabaseCall.state.migrationMode
        /\ ~supabaseCall.after.supabaseConnected

\* ------------------------------------------------------------------------
\* C32: in table mode, after a run in which several selected rows were
\* migrated successfully, migratedRows contains every row that succeeded in
\* the run and every row it contained before the run.
\* ------------------------------------------------------------------------
succeededRows == {id \in DOMAIN rowLog : rowLog[id].incC = 1}

C32_MigratedRowsAccumulate ==
    (tpc = "idle" /\ Cardinality(succeededRows) >= 2) =>
        /\ succeededRows \subseteq migratedRows
        /\ closureMigratedRows \subseteq migratedRows

\* ------------------------------------------------------------------------
\* C33: the drivers of the UI (startMigration of file mode and of table
\* mode) consult the existence check before transferring: no PutObject is
\* sent for a key that is present at the destination.
\* ------------------------------------------------------------------------
C33_PresentKeyNotUploadedAgain ==
    [][Len(putLog') > Len(putLog) =>
          putLog'[Len(putLog')] \notin DOMAIN r2]_vars

\* ------------------------------------------------------------------------
\* C34: in a table-mode run every selected row is resolved exactly once,
\* counted in completed or in failed and never in both; when inProgress is
\* set to false, completed + failed is the number of rows selected at
\* dispatch, whatever the mix of invalid URLs, empty keys, transfer
\* failures, update failures and successes.
\* ------------------------------------------------------------------------
selectedIds == {selectedRows[k].id : k \in 1..Len(selectedRows)}

C34_EveryRowResolvedOnce ==
    /\ \A id \in DOMAIN rowLog : rowLog[id].incC + rowLog[id].incF <= 1
    /\ \A id \in DOMAIN rowLog :
          rowLog[id].incC + rowLog[id].incF = 1 => id \in selectedIds
    /\ (migrationProgress # nullProgress /\ ~migrationProgress.inProgress) =>
          /\ tpc = "idle"
          /\ \A id \in selectedIds : rowLog[id].incC + rowLog[id].incF = 1
          /\ migrationProgress.completed + migrationProgress.failed
                = Len(selectedRows)
          /\ migrationProgress.total = Len(selectedRows)
          /\ migrationProgress.completed
                = Cardinality({id \in selectedIds : rowLog[id].incC = 1})
          /\ migrationProgress.failed
                = Cardinality({id \in selectedIds : rowLog[id].incF = 1})

\* a run over four rows has ended: one row had no valid URL, one an empty
\* key, one was transferred and updated, and one failed in its transfer or
\* in its update
C34_Witness ==
    /\ tpc = "idle"
    /\ migrationProgress # nullProgress
    /\ ~migrationProgress.inProgress
    /\ Len(selectedRows) = 4
    /\ migrationProgress.completed = 1
    /\ migrationProgress.failed = 3
    /\ \E a, b, c, d \in selectedIds :
         /\ rowLog[a].incF = 1 /\ rowLog[a].requests = 0
              /\ migrationProgress.errors[a] = NoValidUrlMessage
         /\ rowLog[b].incF = 1 /\ rowLog[b].requests = 0
              /\ migrationProgress.errors[b] = NoFilePathMessage
         /\ rowLog[c].incC = 1 /\ rowLog[c].upd = "ok"
         /\ rowLog[d].incF = 1 /\ rowLog[d].requests = 1

\* ------------------------------------------------------------------------
\* C35: when a file-mode run completes, a file is selected if and only if
\* it was selected for the run and failed in it; every file of the run that
\* did not fail is deselected and is a member of migratedFiles, so the
\* remaining selection is exactly the failed subset.
\* ------------------------------------------------------------------------
failedIn(h) == DOMAIN h.errors

selectedFor(h) == {h.selectedFiles[k] : k \in 1..Len(h.selectedFiles)}

completes(n) ==
    /\ n \in DOMAIN handlers
    /\ handlers[n].pc = "await"
    /\ handlers'[n].pc = "done"

resolvedAsFailed(n) ==
    /\ item[n].st = "done"
    /\ item[n].incF = 1
    /\ item[n].incC = 0
    /\ ~succeeded(n)

====
